---- MODULE Spec2Model ----
(***************************************************************************)
(* FlashBuild generation pipeline: the POST handler of /api/generate and   *)
(* the stages it drives (reference ingestion, spec extraction, project     *)
(* build, package policy, quality validation, runtime build validation,    *)
(* bounded repair with rollback, cost cap, NDJSON stream).                 *)
(*                                                                         *)
(* Money is carried in ticks of 1/TicksPerUsd USD: every amount the code   *)
(* handles went through toFixed(4).  constraints.maxRetries is a JSON      *)
(* number, not necessarily an integer: it is carried in units of           *)
(* 1/RetryScale.                                                           *)
(***************************************************************************)
EXTENDS Integers, Sequences, FiniteSets, TLC

VARIABLES
  pc,                 \* position of the handler / of the stream's start()
  response,           \* "none" | "400" | "stream"
  rejection,          \* error text of the 400 response, "" when there is none
  normalized,         \* NormalizedRequest (route.ts:100)
  env,                \* process.env as read by the runtime validator
  stream,             \* lines enqueued so far
  closed,             \* controller.close() has run
  totalEstimatedCost, \* route.ts:111
  files,              \* route.ts:112
  spec,               \* route.ts:113
  runtimeHint,        \* route.ts:114
  packageManifest,    \* route.ts:115
  responsiveReport,   \* route.ts:116
  policyNotes,        \* route.ts:117
  lastRuntimeStable,  \* route.ts:118
  generated,          \* result of the Builder call awaiting Policy
  validation,         \* route.ts:248
  retries,            \* route.ts:316
  stages,             \* history: stages started, in order
  calls,              \* history: estimatedCostUsd of every model call that returned
  references,         \* route.ts:146
  lastCall,           \* history: stage and outcome of the latest model call
  passes,             \* history: one record per completed runtime build validation
  reverted,           \* history: the rollback branch (route.ts:396) was taken
  evaluation,         \* one stage function applied on its own: its input and result
  runtime,            \* one call of validateRuntimeBuild, step by step
  delivery,           \* the response stream between start() and its consumer
  ingestion           \* one call of ingestReferences, step by step

vars == <<pc, response, rejection, normalized, env, stream, closed, totalEstimatedCost,
          files, spec, runtimeHint, packageManifest, responsiveReport,
          policyNotes, lastRuntimeStable, generated, validation, retries,
          stages, calls, references, lastCall, passes, reverted, evaluation,
          runtime, delivery, ingestion>>

----------------------------------------------------------------------------
(* Bounds and program constants *)

RetryScale == 2            \* maxRetries is carried in units of 1/RetryScale
MaxRequested == 3          \* largest maxRetries a caller sends (whole units)
NumResponses == 2          \* distinct Builder responses the model can give

TicksPerUsd == 10000       \* toFixed(4)
DefaultMaxRetries == 1
MaxRetriesCap == 2
MinCostCapTicks == 500     \* 0.05 USD
DefaultCostCapTicks == 2500 \* 0.25 USD
ComplexityRemote == 85
StrictVisualThreshold == 78
BalancedThreshold == 65
FunctionFirstThreshold == 45
NoStyleTokenScore == 70
NoHintScore == 75

Max(a, b) == IF a >= b THEN a ELSE b
Min(a, b) == IF a <= b THEN a ELSE b

None == [some |-> FALSE]
Some(v) == [some |-> TRUE, v |-> v]

RECURSIVE SumSeq(_)
SumSeq(s) == IF s = <<>> THEN 0 ELSE Head(s) + SumSeq(Tail(s))

Last(s) == s[Len(s)]

----------------------------------------------------------------------------
(* Request validation and normalisation *)

isProvider(value) == value = "anthropic" \/ value = "openai"

getProviderLabel(provider) == IF provider = "anthropic" THEN "Claude" ELSE "GPT-4o"

\* Math.max(0, Math.min(2, body.constraints?.maxRetries ?? 1))
clampRetries(m) ==
  Max(0, Min(MaxRetriesCap * RetryScale,
             IF m.some THEN m.v ELSE DefaultMaxRetries * RetryScale))

\* Math.max(0.05, body.constraints?.maxCostUsd ?? 0.25)
clampCost(c) == Max(MinCostCapTicks, IF c.some THEN c.v ELSE DefaultCostCapTicks)

\* String.prototype.trim on a prompt, a sequence of characters
RECURSIVE trimStart(_)
trimStart(text) ==
  IF text # <<>> /\ Head(text) = " " THEN trimStart(Tail(text)) ELSE text

RECURSIVE trimEnd(_)
trimEnd(text) ==
  IF text # <<>> /\ text[Len(text)] = " " THEN trimEnd(SubSeq(text, 1, Len(text) - 1))
  ELSE text

trim(text) == trimEnd(trimStart(text))

\* Boolean(body.prompt?.trim())
hasPrompt_untrimmed(body) == body.prompt.some /\ body.prompt.v # <<>>
hasPrompt(body) == body.prompt.some /\ trim(body.prompt.v) # <<>>

\* Array.isArray(body.images) && body.images.length > 0
hasImages(body) == body.images.some /\ Len(body.images.v) > 0

\* Array.isArray(body.urls) && body.urls.length > 0
hasUrls(body) == body.urls.some /\ Len(body.urls.v) > 0

\* the 400 response of the synchronous checks, "" when they all pass
\* (route.ts:83-98)
validationError(body) ==
  IF ~body.apiKey THEN "API key is required"
  ELSE IF ~isProvider(body.provider) THEN "Unsupported AI provider"
  ELSE IF ~hasPrompt(body) /\ ~hasImages(body) /\ ~hasUrls(body)
  THEN "Provide at least one input source: prompt, image, or URL."
  ELSE ""

normalizeRequest(body) ==
  [ apiKey |-> body.apiKey,
    provider |-> body.provider,
    prompt |-> body.prompt,
    images |-> body.images,
    urls |-> body.urls,
    outputStack |-> IF body.outputStack = "undefined" THEN "react-tailwind" ELSE body.outputStack,
    qualityMode |-> IF body.qualityMode = "undefined" THEN "strict_visual" ELSE body.qualityMode,
    constraints |-> [ maxRetries |-> clampRetries(body.maxRetries),
                      maxCostUsd |-> clampCost(body.maxCostUsd) ],
    previewRuntimePreference |->
      IF body.previewRuntimePreference = "undefined" THEN "auto"
      ELSE body.previewRuntimePreference ]

\* Requests the handler can receive.  maxRetries ranges over every multiple
\* of 1/RetryScale from -1 to MaxRequested, and "not sent".
RetryInputs == {None} \cup {Some(v) : v \in (-RetryScale)..(MaxRequested * RetryScale)}
CostInputs == {None, Some(100)}

StreamBodies ==
  [ apiKey : {TRUE}, provider : {"anthropic"},
    prompt : {Some(<<"a">>)}, images : {Some(<<>>)}, urls : {Some(<<>>)},
    outputStack : {"undefined", "vanilla"},
    qualityMode : {"undefined"},
    maxRetries : RetryInputs,
    maxCostUsd : CostInputs,
    previewRuntimePreference : {"undefined", "remote"} ]

\* prompt, images and urls as the JSON body carries them: absent, empty,
\* blank or filled
Prompts == {None, Some(<<>>), Some(<<" ">>), Some(<<" ", "a", " ">>)}
ImageLists == {None, Some(<<>>), Some(<<"image">>)}
UrlLists == {None, Some(<<>>), Some(<<"https://example.com">>)}

BaseBody ==
  [ apiKey |-> TRUE, provider |-> "openai",
    prompt |-> Some(<<"a">>), images |-> Some(<<>>), urls |-> Some(<<>>),
    outputStack |-> "react-tailwind", qualityMode |-> "balanced",
    maxRetries |-> Some(RetryScale), maxCostUsd |-> Some(DefaultCostCapTicks),
    previewRuntimePreference |-> "auto" ]

OtherBodies ==
  { BaseBody,
    [BaseBody EXCEPT !.qualityMode = "function_first", !.outputStack = "vanilla"],
    [BaseBody EXCEPT !.apiKey = FALSE],
    [BaseBody EXCEPT !.provider = "other"],
    [BaseBody EXCEPT !.provider = "other", !.apiKey = FALSE] }
  \cup { [BaseBody EXCEPT !.prompt = p, !.images = i, !.urls = u] :
          p \in Prompts, i \in ImageLists, u \in UrlLists }
  \cup { [BaseBody EXCEPT !.apiKey = FALSE, !.prompt = p] : p \in Prompts }

Bodies == StreamBodies \cup OtherBodies

Envs ==
  { [FLASHBUILD_RUNTIME_VALIDATION |-> "", VERCEL |-> ""],
    [FLASHBUILD_RUNTIME_VALIDATION |-> "off", VERCEL |-> ""] }

----------------------------------------------------------------------------
(* Model calls (aiClient) *)

PricePerMillion(provider) ==
  IF provider = "openai" THEN [input |-> 5, output |-> 15]
  ELSE [input |-> 3, output |-> 15]

\* Number(((in / 1e6) * pin + (out / 1e6) * pout).toFixed(4)), in ticks
estimateCost_subtracting(provider, inputTokens, outputTokens) ==
  LET microUsd == inputTokens * PricePerMillion(provider).input
                  - outputTokens * PricePerMillion(provider).output
      microPerTick == 1000000 \div TicksPerUsd
  IN (2 * microUsd + microPerTick) \div (2 * microPerTick)
estimateCost(provider, inputTokens, outputTokens) ==
  LET microUsd == inputTokens * PricePerMillion(provider).input
                  + outputTokens * PricePerMillion(provider).output
      microPerTick == 1000000 \div TicksPerUsd
  IN (2 * microUsd + microPerTick) \div (2 * microPerTick)

\* What one await callAI(...) can do: return text and usage, throw on a
\* non-ok HTTP response, or throw because fetch / response.json() rejected.
TokenCounts == { [inputTokens |-> 2000, outputTokens |-> 200],
                 [inputTokens |-> 15000, outputTokens |-> 15000] }

CallOutcomes ==
  { [kind |-> "ok", inputTokens |-> t.inputTokens, outputTokens |-> t.outputTokens]
      : t \in TokenCounts }
  \cup { [kind |-> "http", status |-> 500], [kind |-> "exception"] }

usageOf(provider, outcome) ==
  [ inputTokens |-> outcome.inputTokens,
    outputTokens |-> outcome.outputTokens,
    estimatedCostUsd |-> estimateCost(provider, outcome.inputTokens, outcome.outputTokens) ]

\* `${Provider} API error (${response.status}): ${body}` or the exception's message
callErrorMessage_generic(provider, outcome) == [kind |-> "exception"]
callErrorMessage(provider, outcome) ==
  IF outcome.kind = "http"
  THEN [kind |-> "api",
        provider |-> IF provider = "anthropic" THEN "Anthropic" ELSE "OpenAI",
        status |-> outcome.status]
  ELSE [kind |-> "exception"]

----------------------------------------------------------------------------
(* Sequences of strings *)

RECURSIVE uniqFrom(_, _)
uniqFrom(values, seen) ==
  IF values = <<>> THEN <<>>
  ELSE IF Head(values) \in seen THEN uniqFrom(Tail(values), seen)
  ELSE <<Head(values)>> \o uniqFrom(Tail(values), seen \cup {Head(values)})

\* [...new Set(values.map(trim).filter(Boolean))]; the strings of the model
\* are trimmed and non-empty
uniqStrings(values) == uniqFrom(values, {})

Range(s) == {s[i] : i \in DOMAIN s}

slice(s, n) == SubSeq(s, 1, Min(n, Len(s)))

----------------------------------------------------------------------------
(* Text.  A text (the content of a file, the answer of the model) is held  *)
(* as the sequence of its lines, content.split('\n'): the empty text is    *)
(* <<"">>, a text that ends with a line feed has "" as its last line.      *)
(* Joining two texts with '\n' is the concatenation of their lines.        *)

EmptyText == <<"">>

startsWith(line, prefix) ==
  Len(prefix) <= Len(line) /\ SubSeq(line, 1, Len(prefix)) = prefix

endsWith(line, suffix) ==
  Len(suffix) <= Len(line) /\ SubSeq(line, Len(line) - Len(suffix) + 1, Len(line)) = suffix

\* positions at which pattern occurs in line
occurrences(line, pattern) ==
  {i \in 1..(Len(line) - Len(pattern) + 1) : SubSeq(line, i, i + Len(pattern) - 1) = pattern}

includes(line, pattern) == occurrences(line, pattern) # {}

\* String.prototype.indexOf, 1-based; 0 when pattern does not occur
indexOf(line, pattern) ==
  IF includes(line, pattern)
  THEN CHOOSE i \in occurrences(line, pattern) : \A j \in occurrences(line, pattern) : i <= j
  ELSE 0

isBlank(line) == \A i \in 1..Len(line) : SubSeq(line, i, i) \in {" ", "\t"}

\* line.trimStart(), line.trimEnd(), line.trim() of a single line
trimLineStart(line) ==
  IF isBlank(line) THEN ""
  ELSE SubSeq(line,
              CHOOSE i \in 1..Len(line) :
                /\ SubSeq(line, i, i) \notin {" ", "\t"}
                /\ isBlank(SubSeq(line, 1, i - 1)),
              Len(line))

trimLineEnd(line) ==
  IF isBlank(line) THEN ""
  ELSE SubSeq(line, 1,
              CHOOSE i \in 1..Len(line) :
                /\ SubSeq(line, i, i) \notin {" ", "\t"}
                /\ isBlank(SubSeq(line, i + 1, Len(line))))

trimLine(line) == trimLineEnd(trimLineStart(line))

\* text.trimEnd(): the blank lines at the end go, and the white space that
\* ends the last line left
trimTextEnd(text) ==
  IF \A i \in DOMAIN text : isBlank(text[i]) THEN EmptyText
  ELSE LET last == CHOOSE i \in DOMAIN text :
                     ~isBlank(text[i]) /\ \A j \in (i + 1)..Len(text) : isBlank(text[j])
       IN SubSeq(text, 1, last - 1) \o <<trimLineEnd(text[last])>>

trimTextStart(text) ==
  IF \A i \in DOMAIN text : isBlank(text[i]) THEN EmptyText
  ELSE LET first == CHOOSE i \in DOMAIN text :
                      ~isBlank(text[i]) /\ \A j \in 1..(i - 1) : isBlank(text[j])
       IN <<trimLineStart(text[first])>> \o SubSeq(text, first + 1, Len(text))

\* text.trim()
trimText(text) == trimTextEnd(trimTextStart(text))

\* `${a}${b}`: the last line of a and the first line of b become one line
concat(a, b) ==
  SubSeq(a, 1, Len(a) - 1) \o <<a[Len(a)] \o b[1]>> \o SubSeq(b, 2, Len(b))

\* text.length: the characters of the lines and the line feeds between them
textLength(text) == SumSeq([i \in DOMAIN text |-> Len(text[i])]) + Len(text) - 1

----------------------------------------------------------------------------
(* Builder: generateProject / parseFiles / buildUserInput *)

File(path, content) == [path |-> path, content |-> content]

FILE_HEADER == "---FILE:"
END_MARKER == "---END FILE---"

\* a line on which /---FILE:\s*(.+?)---\n/ matches: the header keyword, at
\* least one character, and --- as the end of the line
isHeaderLine(line) ==
  /\ includes(line, FILE_HEADER)
  /\ endsWith(line, "---")
  /\ Len(line) - 3 >= indexOf(line, FILE_HEADER) + Len(FILE_HEADER)

\* match[1].trim()
headerPath(line) ==
  trimLine(SubSeq(line, indexOf(line, FILE_HEADER) + Len(FILE_HEADER), Len(line) - 3))

WordChars ==
  {"a", "b", "c", "d", "e", "f", "g", "h", "i", "j", "k", "l", "m",
   "n", "o", "p", "q", "r", "s", "t", "u", "v", "w", "x", "y", "z",
   "A", "B", "C", "D", "E", "F", "G", "H", "I", "J", "K", "L", "M",
   "N", "O", "P", "Q", "R", "S", "T", "U", "V", "W", "X", "Y", "Z",
   "0", "1", "2", "3", "4", "5", "6", "7", "8", "9", "_", "-"}

\* the markdown code fence; a string of the model cannot hold a backquote,
\* the fence is written with three tildes
FENCE == "~~~"

\* content.replace(/^```[\w-]*\s*\n?/, ''): the white space the pattern
\* takes after the fence goes in the trim that follows
stripOpeningFence(text) ==
  IF ~startsWith(text[1], FENCE) THEN text
  ELSE LET line == text[1]
           stop == IF \A i \in 4..Len(line) : SubSeq(line, i, i) \in WordChars
                   THEN Len(line) + 1
                   ELSE CHOOSE i \in 4..Len(line) :
                          /\ SubSeq(line, i, i) \notin WordChars
                          /\ \A j \in 4..(i - 1) : SubSeq(line, j, j) \in WordChars
       IN trimTextStart(<<SubSeq(line, stop, Len(line))>> \o Tail(text))

\* content.replace(/\n?```\s*$/, '')
stripClosingFence(text) ==
  LET body == trimTextEnd(text)
      last == body[Len(body)]
  IN IF ~endsWith(last, FENCE) THEN text
     ELSE IF Len(last) = 3 /\ Len(body) > 1 THEN SubSeq(body, 1, Len(body) - 1)
     ELSE SubSeq(body, 1, Len(body) - 1) \o <<SubSeq(last, 1, Len(last) - 3)>>

\* the content of a file block as parseFiles keeps it
blockContent(text) == trimText(stripClosingFence(stripOpeningFence(trimText(text))))

\* the file blocks of raw from line i on: a header line opens a block when
\* an end marker follows it, the block's text ends where the marker starts
RECURSIVE parseFrom(_, _)
parseFrom(raw, i) ==
  IF i > Len(raw) THEN <<>>
  ELSE LET ends == {j \in (i + 1)..Len(raw) : includes(raw[j], END_MARKER)}
       IN IF isHeaderLine(raw[i]) /\ ends # {}
          THEN LET j == CHOOSE e \in ends : \A f \in ends : e <= f
                   body == SubSeq(raw, i + 1, j - 1)
                           \o <<SubSeq(raw[j], 1, indexOf(raw[j], END_MARKER) - 1)>>
               IN <<File(headerPath(raw[i]), blockContent(body))>> \o parseFrom(raw, j + 1)
          ELSE parseFrom(raw, i + 1)

parseFiles(raw) == parseFrom(raw, 1)

\* `---FILE: ${file.path}---\n${file.content}\n---END FILE---`
serializeFile(file) ==
  <<FILE_HEADER \o " " \o file.path \o "---">> \o file.content \o <<END_MARKER>>

\* existingFiles of buildUserInput: the blocks joined by '\n\n'
RECURSIVE serializeFiles(_)
serializeFiles(fs) ==
  IF fs = <<>> THEN EmptyText
  ELSE IF Len(fs) = 1 THEN serializeFile(fs[1])
  ELSE serializeFile(fs[1]) \o <<"">> \o serializeFiles(Tail(fs))

\* route.ts:338: validation.report.patchInstructions || validation.report.issues.join('\n')
\* (an absent patch text and the empty string are both falsy)
repairInstructionsOf(report) ==
  IF report.patchInstructions # <<>> THEN report.patchInstructions
  ELSE [i \in DOMAIN report.issues |-> [bullet |-> FALSE, text |-> report.issues[i]]]

\* buildUserInput (generateProject.ts:166-188): the sections of the Builder's
\* user input, joined by '\n\n'; the base section is the prompt, the
\* DesignSpec and the references
buildUserInput(repairInstructions, existingFiles) ==
  LET base == [label |-> "Build the project", body |-> <<>>]
  IN IF repairInstructions = <<>> THEN <<base>>
     ELSE <<base,
            [label |-> "Repair instructions:", body |-> repairInstructions],
            [label |-> "Current files to patch:", body |-> serializeFiles(existingFiles)],
            [label |-> "Regenerate all files with fixes applied.", body |-> <<>>]>>

Responses == 1..NumResponses

quoted(name) == "\"" \o name \o "\""

\* the answer of the model to the Builder's call number r: an odd answer
\* is a project in the file grammar (the first names its entry script by a
\* relative path, the later ones by a rooted one), an even one is prose
\* without a block
ResponseText(r) ==
  IF r % 2 = 1
  THEN << "---FILE: package.json---",
          "{", "\"build\": \"run build\"",
               "\"recharts\"", "\"three\"", "\"fabric\"", "\"konva\"", "\"handsontable\"",
          "}",
          "---END FILE---",
          "",
          "---FILE: index.html---",
          "<meta name=\"viewport\" content=\"width=device-width\" />",
          "<div id=\"root\" data-answer=\"" \o ToString(r) \o "\"></div>",
          "<script type=\"module\" src=\"" \o (IF r = 1 THEN "" ELSE "/") \o "src/main.tsx\"></script>",
          "---END FILE---",
          "",
          "---FILE: src/App.tsx---",
          FENCE \o "tsx",
          "const palette = ['#0f172a', '#3b82f6'];",
          "export default () => <button>Save</button>;",
          FENCE,
          "---END FILE---" >>
  ELSE << "Here is page " \o ToString(r) \o ":",
          "<script src=\"missing.js\"></script>" >>

\* generateProject after the call: the blocks, or the whole answer as
\* index.html when there is none
generateProjectFiles(raw) ==
  IF Len(parseFiles(raw)) > 0 THEN parseFiles(raw)
  ELSE <<File("index.html", raw)>>

----------------------------------------------------------------------------
(* Package Policy Enforcer (packagePolicy.ts).  The scaffold defaults keep *)
(* the lines of the source's templates that a later check reads.           *)

HEAVY_PACKAGES == {"three", "fabric", "konva", "handsontable"}

\* the package names of the model, in the order in which a manifest lists them
PackageOrder == <<"react", "react-dom", "recharts", "three", "fabric", "konva", "handsontable">>

\* the script names of the model, in the order in which a manifest lists them
ScriptOrder == <<"dev", "build", "preview", "test">>

getBaseManifest(outputStack) ==
  IF outputStack = "react-tailwind"
  THEN [framework |-> "react-tailwind", scripts |-> {"dev", "build", "preview"},
        dependencies |-> {"react", "react-dom"}]
  ELSE [framework |-> "vanilla", scripts |-> {"dev"}, dependencies |-> {}]

hasPath(fs, path) == \E i \in DOMAIN fs : fs[i].path = path

\* files.find((file) => file.path === path), for a path that is present
fileAt(fs, path) ==
  fs[CHOOSE i \in DOMAIN fs : fs[i].path = path /\ \A j \in 1..(i - 1) : fs[j].path # path]

upsertFile(fs, path, content) ==
  IF hasPath(fs, path)
  THEN LET index == CHOOSE i \in DOMAIN fs :
                      fs[i].path = path /\ \A j \in 1..(i - 1) : fs[j].path # path
       IN [i \in DOMAIN fs |-> IF i = index THEN File(path, content) ELSE fs[i]]
  ELSE Append(fs, File(path, content))

\* the member of a manifest text that declares a script, a dependency
scriptMember(name) == quoted(name) \o ": " \o quoted("run " \o name)
dependencyMember(name) == quoted(name)

\* JSON.parse of a manifest text: an object whose members are scripts and
\* dependencies, one to a line, between the braces; anything else does not
\* parse
parseJson(text) ==
  LET body == trimText(text)
      members == {trimLine(body[i]) : i \in 2..(Len(body) - 1)}
  IN IF body = <<"{}">> THEN Some([scripts |-> {}, dependencies |-> {}])
     ELSE IF /\ Len(body) >= 2
             /\ body[1] = "{"
             /\ body[Len(body)] = "}"
             /\ \A member \in members :
                  \/ \E n \in Range(ScriptOrder) : member = scriptMember(n)
                  \/ \E n \in Range(PackageOrder) : member = dependencyMember(n)
     THEN Some([scripts |-> {n \in Range(ScriptOrder) : scriptMember(n) \in members},
                dependencies |-> {n \in Range(PackageOrder) : dependencyMember(n) \in members}])
     ELSE None

\* JSON.stringify(manifest, null, 2)
stringifyJson(manifest) ==
  LET scripts == SelectSeq(ScriptOrder, LAMBDA n : n \in manifest.scripts)
      names == SelectSeq(PackageOrder, LAMBDA n : n \in manifest.dependencies)
  IN <<"{">>
     \o [i \in DOMAIN scripts |-> "  " \o scriptMember(scripts[i])]
     \o [i \in DOMAIN names |-> "  " \o dependencyMember(names[i])]
     \o <<"}">>

parsePackageJson(fs) ==
  IF hasPath(fs, "package.json") THEN parseJson(fileAt(fs, "package.json").content)
  ELSE None

\* dependencies of the package.json among fs, as parsePackageJson reads them
packageJsonDependencies(fs) ==
  IF parsePackageJson(fs).some THEN parsePackageJson(fs).v.dependencies ELSE {}

\* scripts of the package.json among fs
packageJsonScripts(fs) ==
  IF parsePackageJson(fs).some THEN parsePackageJson(fs).v.scripts ELSE {}

mergeManifest(base, fs) ==
  [framework |-> base.framework,
   scripts |-> base.scripts \cup packageJsonScripts(fs),
   dependencies |-> base.dependencies \cup packageJsonDependencies(fs)]

REACT_REQUIRED == <<"src/main.tsx", "src/App.tsx", "src/styles.css", "index.html",
                    "tailwind.config.js", "postcss.config.js">>
VANILLA_REQUIRED == <<"index.html", "styles.css", "app.js">>

TAILWIND_IMPORT == "@import \"tailwindcss\";"

POSTCSS_DEFAULT == <<"export default { plugins: { '@tailwindcss/postcss': {} } };", "">>

reactDefault(path) ==
  CASE path = "src/main.tsx" -> <<"import App from './App';", "import './styles.css';", "">>
    [] path = "src/App.tsx" -> <<"export default function App() { return <main />; }", "">>
    [] path = "src/styles.css" -> <<TAILWIND_IMPORT, "", "body { margin: 0; }", "">>
    [] path = "index.html" ->
         << "<meta name=\"viewport\" content=\"width=device-width\" />",
            "<script type=\"module\" src=\"/src/main.tsx\"></script>", "" >>
    [] path = "tailwind.config.js" -> <<"export default { plugins: [] };", "">>
    [] path = "postcss.config.js" -> POSTCSS_DEFAULT

vanillaDefault(path) ==
  CASE path = "index.html" ->
         << "<meta name=\"viewport\" content=\"width=device-width\" />",
            "<link rel=\"stylesheet\" href=\"styles.css\" />",
            "<script src=\"app.js\"></script>", "" >>
    [] path = "styles.css" -> <<"body { margin: 0; }">>
    [] path = "app.js" -> <<"document.getElementById('app').textContent = 'Generated app';">>

\* the loop over the required paths: each one that is absent is appended,
\* in the order of the list (the paths of a list are distinct)
ensureDefaults(fs, required, outputStack) ==
  LET missing == SelectSeq(required, LAMBDA path : ~hasPath(fs, path))
  IN fs \o [i \in 1..Len(missing) |->
              File(missing[i], IF outputStack = "react-tailwind"
                               THEN reactDefault(missing[i])
                               ELSE vanillaDefault(missing[i]))]

\* `${JSON.stringify(...)}\n`
packageJsonContent(manifest) == stringifyJson(manifest) \o <<"">>

ensureReactScaffold(fs, manifest) ==
  upsertFile(ensureDefaults(fs, REACT_REQUIRED, "react-tailwind"),
             "package.json", packageJsonContent(manifest))

ensureVanillaScaffold_withoutManifest(fs, manifest) ==
  ensureDefaults(fs, VANILLA_REQUIRED, "vanilla")
ensureVanillaScaffold(fs, manifest) ==
  upsertFile(ensureDefaults(fs, VANILLA_REQUIRED, "vanilla"),
             "package.json", packageJsonContent(manifest))

\* /^@tailwind\s+(base|components|utilities);?$/i and
\* /^@import\s+['"]tailwindcss\/(base|components|utilities)['"];?$/i
isLegacyTailwindLine(line) ==
  \E layer \in {"base", "components", "utilities"}, semi \in {"", ";"} :
    \/ line = "@tailwind " \o layer \o semi
    \/ line = "@import \"tailwindcss/" \o layer \o "\"" \o semi
    \/ line = "@import 'tailwindcss/" \o layer \o "'" \o semi

\* /^@import\s+['"]tailwindcss['"];?$/i
isV4ImportLine(line) ==
  line \in {"@import \"tailwindcss\";", "@import \"tailwindcss\"",
            "@import 'tailwindcss';", "@import 'tailwindcss'"}

normalizeTailwindStyles(content) ==
  LET cleaned == SelectSeq(content, LAMBDA line : ~isLegacyTailwindLine(trimLine(line)))
      hasV4Import == \E i \in DOMAIN cleaned : isV4ImportLine(trimLine(cleaned[i]))
      body == IF cleaned = <<>> THEN EmptyText ELSE trimText(cleaned)
      prefix == IF hasV4Import THEN "" ELSE TAILWIND_IMPORT
  IN IF body = EmptyText THEN <<prefix, "">>
     ELSE <<prefix, "">> \o body \o <<"">>

ensureTailwindSyntax(fs, outputStack) ==
  IF outputStack # "react-tailwind" THEN fs
  ELSE IF ~hasPath(fs, "src/styles.css") THEN fs
  ELSE upsertFile(fs, "src/styles.css",
                  normalizeTailwindStyles(fileAt(fs, "src/styles.css").content))

\* content.replace(/module\.exports\s*=\s*/g, 'export default ')
replaceModuleExports(content) ==
  [i \in DOMAIN content |->
     IF includes(content[i], "module.exports = ")
     THEN LET at == indexOf(content[i], "module.exports = ")
          IN SubSeq(content[i], 1, at - 1) \o "export default "
             \o SubSeq(content[i], at + Len("module.exports = "), Len(content[i]))
     ELSE content[i]]

\* convert of normalizeEsmConfigFiles
convertConfig(content) ==
  IF ~\E i \in DOMAIN content : includes(content[i], "module.exports = ") THEN content
  ELSE LET replaced == replaceModuleExports(content)
           trimmed == trimTextEnd(replaced)
           last == trimmed[Len(trimmed)]
       IN IF endsWith(last, ";")
          THEN SubSeq(trimmed, 1, Len(trimmed) - 1) \o <<SubSeq(last, 1, Len(last) - 1)>>
          ELSE replaced

normalizeConfigAt(fs, path) ==
  IF ~hasPath(fs, path) THEN fs
  ELSE IF convertConfig(fileAt(fs, path).content) = fileAt(fs, path).content THEN fs
  ELSE upsertFile(fs, path, trimTextEnd(convertConfig(fileAt(fs, path).content)) \o <<"">>)

normalizeEsmConfigFiles(fs, outputStack) ==
  IF outputStack # "react-tailwind" THEN fs
  ELSE LET next == normalizeConfigAt(normalizeConfigAt(fs, "postcss.config.js"),
                                     "tailwind.config.js")
       IN IF /\ hasPath(next, "postcss.config.js")
             /\ ~\E i \in DOMAIN fileAt(next, "postcss.config.js").content :
                   includes(fileAt(next, "postcss.config.js").content[i], "@tailwindcss/postcss")
          THEN upsertFile(next, "postcss.config.js", POSTCSS_DEFAULT)
          ELSE next

\* /\.(css|tsx|jsx|js|ts)$/i
isStyleOrScriptPath(path) ==
  \E ext \in {".css", ".tsx", ".jsx", ".js", ".ts"} : endsWith(path, ext)

anyLineIncludes(text, patterns) ==
  \E i \in DOMAIN text : \E p \in patterns : includes(text[i], p)

\* a pattern tested on the contents, joined by '\n', of the style and
\* script files: it matches when a line of one of them holds it
styleCorpusIncludes(fs, patterns) ==
  \E i \in DOMAIN fs :
    isStyleOrScriptPath(fs[i].path) /\ anyLineIncludes(fs[i].content, patterns)

\* /(overflow-x\s*:\s*hidden|max-width\s*:\s*100%|minmax\()/i
OVERFLOW_SIGNALS == {"overflow-x: hidden", "max-width: 100%", "minmax("}

\* /@media\s*\(|\b(sm:|md:|lg:|xl:|2xl:)\b/
BREAKPOINT_SIGNALS == {"@media (", "sm:", "md:", "lg:", "xl:"}

hasOverflowGuard(fs) == styleCorpusIncludes(fs, OVERFLOW_SIGNALS)

hasBreakpointSignals(fs) == styleCorpusIncludes(fs, BREAKPOINT_SIGNALS)

OVERFLOW_GUARD ==
  << "", "", "/* FlashBuild responsive overflow guard */",
     "html, body, #root { max-width: 100%; overflow-x: hidden; }", "" >>

BREAKPOINT_BASELINE ==
  << "", "", "/* FlashBuild responsive breakpoint baseline */",
     "@media (min-width: 768px) { :root { --fb-content-max: 768px; } }",
     "@media (min-width: 1280px) { :root { --fb-content-max: 1280px; } }", "" >>

withOverflowGuard(content) ==
  IF anyLineIncludes(content, {"overflow-x: hidden", "max-width: 100%"}) THEN content
  ELSE concat(trimTextEnd(content), OVERFLOW_GUARD)

withBreakpointBaseline(content) ==
  IF /\ anyLineIncludes(content, {"@media (min-width: 768px)"})
     /\ anyLineIncludes(content, {"@media (min-width: 1280px)"})
  THEN content
  ELSE concat(trimTextEnd(content), BREAKPOINT_BASELINE)

ensureResponsiveGuards(fs, outputStack) ==
  LET needOverflowGuard == ~hasOverflowGuard(fs)
      needBreakpoints == ~hasBreakpointSignals(fs)
      preferredPath == IF outputStack = "react-tailwind" THEN "src/styles.css" ELSE "styles.css"
      cssIndices == {i \in DOMAIN fs : endsWith(fs[i].path, ".css")}
      compose(content) ==
        LET guarded == IF needOverflowGuard THEN withOverflowGuard(content) ELSE content
        IN IF needBreakpoints THEN withBreakpointBaseline(guarded) ELSE guarded
  IN IF ~needOverflowGuard /\ ~needBreakpoints THEN fs
     ELSE IF hasPath(fs, preferredPath)
     THEN upsertFile(fs, preferredPath, compose(fileAt(fs, preferredPath).content))
     ELSE IF cssIndices # {}
     THEN LET first == CHOOSE i \in cssIndices : \A j \in cssIndices : i <= j
          IN upsertFile(fs, fs[first].path, compose(fs[first].content))
     ELSE upsertFile(fs, preferredPath, compose(EmptyText))

\* files.reduce((total, file) => total + file.content.length, 0)
codeSize(fs) == SumSeq([i \in DOMAIN fs |-> textLength(fs[i].content)])

estimateComplexity_uncapped(manifest, fs) ==
  Min(55, Cardinality(manifest.dependencies) * 4)
  + Cardinality(manifest.dependencies \cap HEAVY_PACKAGES) * 20
  + Min(25, (codeSize(fs) \div 60000) * 5)
estimateComplexity(manifest, fs) ==
  Min(100, Min(55, Cardinality(manifest.dependencies) * 4)
           + Cardinality(manifest.dependencies \cap HEAVY_PACKAGES) * 20
           + Min(25, (codeSize(fs) \div 60000) * 5))

buildRuntimeHint(outputStack, complexityScore) ==
  IF outputStack = "vanilla"
  THEN [preferredRuntime |-> "srcdoc", fallbackRuntime |-> "sandpack",
        reason |-> "vanilla", complexityScore |-> complexityScore]
  ELSE IF complexityScore >= ComplexityRemote
  THEN [preferredRuntime |-> "remote", fallbackRuntime |-> "sandpack",
        reason |-> "complex", complexityScore |-> complexityScore]
  ELSE [preferredRuntime |-> "sandpack", fallbackRuntime |-> "remote",
        reason |-> "react", complexityScore |-> complexityScore]

\* /<meta[^>]*name=["']viewport["'][^>]*>/i
hasViewportMeta(html) ==
  \E i \in DOMAIN html :
    includes(html[i], "<meta") /\ anyLineIncludes(<<html[i]>>, {"name=\"viewport\"", "name='viewport'"})

buildResponsiveReport(fs) ==
  LET htmlIndices == {i \in DOMAIN fs : endsWith(fs[i].path, ".html")}
      html == IF htmlIndices = {} THEN EmptyText
              ELSE fs[CHOOSE i \in htmlIndices : \A j \in htmlIndices : i <= j].content
      warnings ==
        (IF hasViewportMeta(html) THEN <<>> ELSE <<"Missing viewport meta tag.">>)
        \o (IF hasBreakpointSignals(fs) THEN <<>>
            ELSE <<"No responsive breakpoints found (media queries or utility breakpoints).">>)
        \o (IF hasOverflowGuard(fs) THEN <<>>
            ELSE <<"No explicit horizontal overflow guard detected.">>)
  IN [passed |-> warnings = <<>>, warnings |-> warnings]

\* the only member of a one-element set
The(S) == CHOOSE v \in S : TRUE

\* manifest, nextFiles and report are each computed once, as the consts of
\* the function are
enforcePackagePolicy(fs, outputStack) ==
  The({ The({ The({ [files |-> nextFiles,
                     manifest |-> manifest,
                     notes |-> IF report.passed THEN <<>> ELSE <<"Responsive warnings">>,
                     runtimeHint |-> buildRuntimeHint(outputStack,
                                                      estimateComplexity(manifest, nextFiles)),
                     responsiveReport |-> report]
                   : report \in {buildResponsiveReport(nextFiles)} })
             : nextFiles \in {ensureResponsiveGuards(
                                normalizeEsmConfigFiles(
                                  ensureTailwindSyntax(
                                    IF outputStack = "react-tailwind"
                                    THEN ensureReactScaffold(fs, manifest)
                                    ELSE ensureVanillaScaffold(fs, manifest),
                                    outputStack),
                                  outputStack),
                                outputStack)} })
       : manifest \in {mergeManifest(getBaseManifest(outputStack), fs)} })

----------------------------------------------------------------------------
(* Extractor (extractDesignSpec.ts), as far as the plan of the files goes *)

REACT_FILE_PLAN == <<"package.json", "index.html", "src/main.tsx", "src/App.tsx",
                     "src/styles.css", "tailwind.config.js", "postcss.config.js">>
VANILLA_FILE_PLAN == <<"index.html", "styles.css", "app.js">>

\* the JSON documents of the model, and the object each one stands for:
\* a DesignSpec whose outputStack and filePlan are present or not
SpecDocuments ==
  ( "{}" :> [outputStack |-> None, filePlan |-> None] )
  @@ ( "{\"outputStack\":\"vanilla\"}" :> [outputStack |-> Some("vanilla"), filePlan |-> None] )
  @@ ( "{\"filePlan\":[\"main.py\"]}" :> [outputStack |-> None, filePlan |-> Some(<<"main.py">>)] )

\* JSON.parse(raw): white space around the document is allowed
jsonParse(raw) ==
  IF trimLine(raw) \in DOMAIN SpecDocuments THEN Some(SpecDocuments[trimLine(raw)]) ELSE None

\* line.replace(/pattern/g, '') for a literal pattern
RECURSIVE removeAll(_, _)
removeAll(line, pattern) ==
  IF ~includes(line, pattern) THEN line
  ELSE SubSeq(line, 1, indexOf(line, pattern) - 1)
       \o removeAll(SubSeq(line, indexOf(line, pattern) + Len(pattern), Len(line)), pattern)

\* raw.replace(/```(?:json)?\n?/gi, '').replace(/```\s*$/g, '').trim()
stripFences(raw) == trimLine(removeAll(removeAll(raw, FENCE \o "json"), FENCE))

\* stripped.match(/\{[\s\S]*\}/): from the first opening brace to the last
\* closing one
braceMatch(stripped) ==
  LET opens == occurrences(stripped, "{")
      closes == occurrences(stripped, "}")
      first == CHOOSE i \in opens : \A j \in opens : i <= j
      last == CHOOSE i \in closes : \A j \in closes : j <= i
  IN IF opens = {} \/ closes = {} THEN None
     ELSE IF last < first THEN None
     ELSE Some(SubSeq(stripped, first, last))

safeJsonParse(raw) ==
  IF jsonParse(raw).some THEN jsonParse(raw)
  ELSE IF jsonParse(stripFences(raw)).some THEN jsonParse(stripFences(raw))
  ELSE IF ~braceMatch(stripFences(raw)).some THEN None
  ELSE jsonParse(braceMatch(stripFences(raw)).v)

\* answers of the model to the Extractor's call
ExtractorAnswers ==
  { "{}", " {\"outputStack\":\"vanilla\"} ",
    FENCE \o "json{\"filePlan\":[\"main.py\"]}" \o FENCE,
    "Here is the spec: {} as requested.",
    "I cannot help with that.", "", "{\"outputStack\":\"vanilla\"",
    "see {a} and {b}", "} nothing {", FENCE \o "json not a spec " \o FENCE }

\* the answers that safeJsonParse gives up on
UnparsableAnswers == {raw \in ExtractorAnswers : ~safeJsonParse(raw).some}

buildFallbackSpec(outputStack) ==
  [outputStack |-> outputStack,
   filePlan |-> IF outputStack = "react-tailwind" THEN REACT_FILE_PLAN ELSE VANILLA_FILE_PLAN]

\* parsed is what safeJsonParse made of the answer: nothing, or an object
\* whose outputStack and filePlan are present or not
extractDesignSpec_withoutFallback(parsed, outputStack) ==
  IF ~parsed.some THEN [outputStack |-> outputStack, filePlan |-> <<>>]
  ELSE [outputStack |-> IF parsed.v.outputStack.some THEN parsed.v.outputStack.v
                        ELSE outputStack,
        filePlan |-> IF parsed.v.filePlan.some /\ Len(parsed.v.filePlan.v) > 0
                     THEN parsed.v.filePlan.v
                     ELSE buildFallbackSpec(outputStack).filePlan]
extractDesignSpec(parsed, outputStack) ==
  IF ~parsed.some THEN buildFallbackSpec(outputStack)
  ELSE [outputStack |-> IF parsed.v.outputStack.some THEN parsed.v.outputStack.v
                        ELSE outputStack,
        filePlan |-> IF parsed.v.filePlan.some /\ Len(parsed.v.filePlan.v) > 0
                     THEN parsed.v.filePlan.v
                     ELSE buildFallbackSpec(outputStack).filePlan]

----------------------------------------------------------------------------
(* Reference Ingestor, as far as the later stages read its result *)

ReferenceBundles ==
  { [styleTokens |-> <<>>, interactionHints |-> <<>>],
    [styleTokens |-> <<"#0f172a", "#3b82f6">>, interactionHints |-> <<"button:Save">>] }

----------------------------------------------------------------------------
(* Quality Validator (validateOutput) *)

\* what safeJsonParse makes of the reviewer's text
ReviewerResponses ==
  { [functionalPass |-> TRUE, criticalIssues |-> <<>>, patchInstructions |-> <<>>],
    [functionalPass |-> FALSE, criticalIssues |-> <<"Save button does nothing">>,
     patchInstructions |-> <<[bullet |-> FALSE, text |-> "Wire the save handler"]>>] }

\* files.find(index.html)?.content ?? files.find(endsWith('.html'))?.content ?? ''
extractIndexHtml(fs) ==
  IF hasPath(fs, "index.html") THEN fileAt(fs, "index.html").content
  ELSE LET htmlIndices == {i \in DOMAIN fs : endsWith(fs[i].path, ".html")}
       IN IF htmlIndices = {} THEN EmptyText
          ELSE fs[CHOOSE i \in htmlIndices : \A j \in htmlIndices : i <= j].content

\* the value of the attribute on a line that opens the tag, as
\* /<tag[^>]*attr=["']([^"']+)["']/ captures it; "" when there is none
attributeOf(line, tag, attr) ==
  IF ~includes(line, tag) THEN ""
  ELSE LET rest == SubSeq(line, indexOf(line, tag) + Len(tag), Len(line))
           opens == {q \in {"\"", "'"} : includes(rest, attr \o "=" \o q)}
       IN IF opens = {} THEN ""
          ELSE LET q == CHOOSE o \in opens :
                          \A p \in opens : indexOf(rest, attr \o "=" \o o) <= indexOf(rest, attr \o "=" \o p)
                   value == SubSeq(rest, indexOf(rest, attr \o "=" \o q) + Len(attr) + 2, Len(rest))
                   quotes == occurrences(value, "\"") \cup occurrences(value, "'")
               IN IF quotes = {} THEN ""
                  ELSE SubSeq(value, 1, (CHOOSE e \in quotes : \A f \in quotes : e <= f) - 1)

isRemoteReference(ref) ==
  startsWith(ref, "http://") \/ startsWith(ref, "https://") \/ startsWith(ref, "data:")

\* the references of one kind, in the order of the lines of the page
htmlReferences(html, tag, attr) ==
  LET refs == [i \in DOMAIN html |-> attributeOf(html[i], tag, attr)]
  IN SelectSeq(refs, LAMBDA ref : ref # "" /\ ~isRemoteReference(ref))

checkMissingHtmlReferences(fs, html) ==
  LET refs == htmlReferences(html, "<script", "src") \o htmlReferences(html, "<link", "href")
      missing == SelectSeq(refs, LAMBDA ref : ~hasPath(fs, ref))
  IN uniqStrings([i \in DOMAIN missing |-> "Missing referenced file: " \o missing[i]])

\* /<script[^>]*type=["']module["'][^>]*src=["']\/?src\/main\.(tsx|jsx)["'][^>]*>/i
hasModuleEntryScript(html) ==
  \E i \in DOMAIN html :
    /\ anyLineIncludes(<<html[i]>>, {"type=\"module\"", "type='module'"})
    /\ attributeOf(html[i], "<script", "src")
         \in {"/src/main.tsx", "src/main.tsx", "/src/main.jsx", "src/main.jsx"}

checkRuntimeStructure(fs, outputStack) ==
  IF outputStack # "react-tailwind" THEN <<>>
  ELSE (IF hasPath(fs, "package.json") THEN <<>>
        ELSE <<"Missing package.json for React runtime.">>)
       \o (IF hasPath(fs, "src/main.tsx") \/ hasPath(fs, "src/main.jsx") THEN <<>>
           ELSE <<"Missing React entry file (src/main.tsx or src/main.jsx).">>)
       \o (IF hasPath(fs, "src/App.tsx") \/ hasPath(fs, "src/App.jsx") THEN <<>>
           ELSE <<"Missing root App component file.">>)
       \o (IF hasModuleEntryScript(extractIndexHtml(fs)) THEN <<>>
           ELSE <<"index.html does not include module entry script for React.">>)

\* the deterministic rules that read the page and the file list
deterministicIssues(fs, outputStack) ==
  checkMissingHtmlReferences(fs, extractIndexHtml(fs)) \o checkRuntimeStructure(fs, outputStack)

\* /\.(css|scss|sass|js|jsx|ts|tsx|html)$/i
isCheckedPath(path) ==
  \E ext \in {".css", ".scss", ".sass", ".js", ".jsx", ".ts", ".tsx", ".html"} :
    endsWith(path, ext)

checkedCorpusIncludes(fs, patterns) ==
  \E i \in DOMAIN fs : isCheckedPath(fs[i].path) /\ anyLineIncludes(fs[i].content, patterns)

checkResponsiveReadiness(fs) ==
  (IF hasViewportMeta(extractIndexHtml(fs)) THEN <<>> ELSE <<"Missing viewport meta tag.">>)
  \o (IF checkedCorpusIncludes(fs, BREAKPOINT_SIGNALS) THEN <<>>
      ELSE <<"No breakpoint rules detected for 375/768/1280 layouts.">>)
  \o (IF checkedCorpusIncludes(fs, OVERFLOW_SIGNALS) THEN <<>>
      ELSE <<"No explicit overflow guard detected.">>)

\* the style tokens a reference can carry
StyleTokens == <<"#0f172a", "#3b82f6">>

\* the tokens of the generated files that a reference can share with them
parseGeneratedStyleTokens(fs) ==
  SelectSeq(StyleTokens,
            LAMBDA token : \E i \in DOMAIN fs : anyLineIncludes(fs[i].content, {token}))

scoreVisualSimilarity_fullWithoutTokens(referenceTokens, generatedTokens) ==
  IF Len(referenceTokens) = 0 THEN 100
  ELSE LET refSet == Range(referenceTokens)
           overlap == Cardinality(refSet \cap Range(generatedTokens))
       IN Min(100, Max(0, (200 * overlap + Cardinality(refSet)) \div (2 * Cardinality(refSet))))
scoreVisualSimilarity(referenceTokens, generatedTokens) ==
  IF Len(referenceTokens) = 0 THEN NoStyleTokenScore
  ELSE LET refSet == Range(referenceTokens)
           overlap == Cardinality(refSet \cap Range(generatedTokens))
       IN Min(100, Max(0, (200 * overlap + Cardinality(refSet)) \div (2 * Cardinality(refSet))))

UpperCase == <<"A", "B", "C", "D", "E", "F", "G", "H", "I", "J", "K", "L", "M",
               "N", "O", "P", "Q", "R", "S", "T", "U", "V", "W", "X", "Y", "Z">>
LowerCase == <<"a", "b", "c", "d", "e", "f", "g", "h", "i", "j", "k", "l", "m",
               "n", "o", "p", "q", "r", "s", "t", "u", "v", "w", "x", "y", "z">>

RECURSIVE toLowerCase(_)
toLowerCase(line) ==
  IF line = "" THEN ""
  ELSE LET c == SubSeq(line, 1, 1)
           upper == {k \in DOMAIN UpperCase : UpperCase[k] = c}
       IN (IF upper = {} THEN c ELSE LowerCase[CHOOSE k \in upper : TRUE])
          \o toLowerCase(SubSeq(line, 2, Len(line)))

\* hint.split(':')[1]?.toLowerCase() ?? hint.toLowerCase()
hintLabel(hint) ==
  LET colons == occurrences(hint, ":")
  IN IF colons = {} THEN toLowerCase(hint)
     ELSE LET first == CHOOSE i \in colons : \A j \in colons : i <= j
              later == {j \in colons : j > first}
              stop == IF later = {} THEN Len(hint) + 1
                      ELSE CHOOSE i \in later : \A j \in later : i <= j
          IN toLowerCase(SubSeq(hint, first + 1, stop - 1))

\* Math.round((matched / referenceHints.length) * 100)
scoreInteractionCoverage(referenceHints, fs) ==
  IF Len(referenceHints) = 0 THEN NoHintScore
  ELSE LET matched == Len(SelectSeq(referenceHints,
                            LAMBDA hint : \E i \in DOMAIN fs : \E k \in DOMAIN fs[i].content :
                              includes(toLowerCase(fs[i].content[k]), hintLabel(hint))))
       IN (200 * matched + Len(referenceHints)) \div (2 * Len(referenceHints))

acceptanceThreshold_balancedForStrict(mode) ==
  IF mode = "function_first" THEN FunctionFirstThreshold ELSE BalancedThreshold
acceptanceThreshold(mode) ==
  IF mode = "strict_visual" THEN StrictVisualThreshold
  ELSE IF mode = "balanced" THEN BalancedThreshold
  ELSE FunctionFirstThreshold

modeRequiresVisual_always(mode) == TRUE
modeRequiresVisual(mode) == mode # "function_first"

TextLine(text) == [bullet |-> FALSE, text |-> text]

\* lines.map((line) => `- ${line}`)
bullets(lines) == [i \in DOMAIN lines |-> [bullet |-> TRUE, text |-> lines[i]]]

\* validateOutput from the point where the reviewer's answer, the
\* deterministic issues, the responsive warnings and the visual score are
\* known (part_011:341-382)
qualityReport(reviewer, detIssues, responsiveWarnings, visualScore, qualityMode) ==
  LET reviewerIssues == reviewer.criticalIssues
      reviewerPass == reviewer.functionalPass
      functionalIssues == uniqStrings(reviewerIssues \o detIssues)
      functionalPass == reviewerPass /\ Len(functionalIssues) = 0
      threshold == acceptanceThreshold(qualityMode)
      responsivePass == Len(responsiveWarnings) = 0
      visualPass == IF modeRequiresVisual(qualityMode) THEN visualScore >= threshold ELSE TRUE
      accepted == functionalPass /\ visualPass /\ responsivePass
      issues == functionalIssues
                \o (IF visualPass THEN <<>> ELSE <<"Visual score below threshold">>)
                \o (IF responsivePass THEN <<>> ELSE <<"Responsive checks failed.">>)
      patchLines == slice(uniqStrings(detIssues \o issues), 20)
  IN [ visualScore |-> visualScore,
       functionalPass |-> functionalPass,
       issues |-> issues,
       accepted |-> accepted,
       retryRecommended |-> ~accepted,
       patchInstructions |->
         reviewer.patchInstructions
         \o (IF Len(patchLines) > 0
             THEN <<TextLine("Fix the following issues exactly:")>> \o bullets(patchLines)
             ELSE <<>>),
       responsiveWarnings |-> responsiveWarnings ]

\* Math.round(style * 0.7 + interaction * 0.3)
weightedVisualScore(styleScore, interactionScore) ==
  (7 * styleScore + 3 * interactionScore + 5) \div 10

validateOutputReport(reviewer, fs, refs, qualityMode, outputStack) ==
  qualityReport(reviewer,
                uniqStrings(deterministicIssues(fs, outputStack)),
                checkResponsiveReadiness(fs),
                weightedVisualScore(
                  scoreVisualSimilarity(refs.styleTokens, parseGeneratedStyleTokens(fs)),
                  scoreInteractionCoverage(refs.interactionHints, fs)),
                qualityMode)

\* The stage functions on the file sets a request can hold.  A table is
\* computed once; an action reads the entry of its arguments.
OutputStacks == {"react-tailwind", "vanilla"}

QualityModes == {"strict_visual", "balanced", "function_first"}

\* generateProject on each answer of the model
generateProjectResults == [r \in Responses |-> generateProjectFiles(ResponseText(r))]

\* enforcePackagePolicy on each Builder result
enforcePackagePolicyResults ==
  [fs \in {generateProjectResults[r] : r \in Responses}, outputStack \in OutputStacks |->
     enforcePackagePolicy(fs, outputStack)]

PolicyFileSets ==
  {enforcePackagePolicyResults[fs, outputStack].files :
     fs \in {generateProjectResults[r] : r \in Responses}, outputStack \in OutputStacks}

\* validateOutput on each Enforcer result
validateOutputResults ==
  [reviewer \in ReviewerResponses, fs \in PolicyFileSets, refs \in ReferenceBundles,
   qualityMode \in QualityModes, outputStack \in OutputStacks |->
     validateOutputReport(reviewer, fs, refs, qualityMode, outputStack)]

\* route.ts mergePatchInstructions
mergePatchInstructions(existing, runtimeIssues) ==
  existing \o (IF Len(runtimeIssues) > 0
               THEN <<TextLine("Fix runtime execution failures:")>> \o bullets(runtimeIssues)
               ELSE <<>>)

----------------------------------------------------------------------------
(* Runtime Build Validator (validateRuntimeBuild), seen from its caller *)

shouldRunRuntimeValidation_ignoringHost(outputStack, e) ==
  IF outputStack # "react-tailwind" THEN FALSE
  ELSE e.FLASHBUILD_RUNTIME_VALIDATION # "off"
shouldRunRuntimeValidation(outputStack, e) ==
  IF outputStack # "react-tailwind" THEN FALSE
  ELSE IF e.FLASHBUILD_RUNTIME_VALIDATION = "off" THEN FALSE
  ELSE IF e.VERCEL = "1" /\ e.FLASHBUILD_RUNTIME_VALIDATION # "force" THEN FALSE
  ELSE TRUE

\* what the install/build commands and the file system do in one call:
\* everything succeeds, the build exits non-zero, or mkdtemp / the final rm
\* rejects (outside the try block)
RuntimeOutcomes == {"ok", "build-failed", "throws"}

validateRuntimeBuild(fs, outputStack, e, outcome) ==
  IF ~shouldRunRuntimeValidation(outputStack, e)
  THEN [passed |-> TRUE, phase |-> "skipped",
        issues |-> <<"Runtime build validation skipped by environment.">>]
  ELSE IF ~hasPath(fs, "package.json")
  THEN [passed |-> FALSE, phase |-> "install",
        issues |-> <<"Missing package.json for runtime build validation.">>]
  ELSE IF outcome = "ok"
  THEN [passed |-> TRUE, phase |-> "build", issues |-> <<>>]
  ELSE [passed |-> FALSE, phase |-> "build",
        issues |-> <<"Runtime build command failed.", "error TS2304">>]

----------------------------------------------------------------------------
(* The stream *)

EventLine(t, progress) == [type |-> "event", event |-> [type |-> t, progress |-> progress]]
FileLine(file) == [type |-> "file", file |-> file]
MetadataLine(metadata) == [type |-> "metadata", metadata |-> metadata]
ErrorLine(message) == [type |-> "error", error |-> message]
DoneLine == [type |-> "done"]

\* catch (error) { send({type: 'error', ...}) } finally { controller.close() }
\* after the lines the try block sent before it threw
Fatal_emittingSnapshot(sent, message) ==
  /\ stream' = stream \o sent
                 \o (IF lastRuntimeStable = None THEN <<>>
                     ELSE [k \in DOMAIN lastRuntimeStable.files |->
                             FileLine(lastRuntimeStable.files[k])])
                 \o <<ErrorLine(message)>>
  /\ closed' = TRUE
  /\ pc' = "closed"
Fatal(sent, message) ==
  /\ stream' = stream \o sent \o <<ErrorLine(message)>>
  /\ closed' = TRUE
  /\ pc' = "closed"

\* addCost: the new total, and whether it throws
addCostTotal(total, value) == total + value

costExceeded(total, cap) == total > cap

costMessage(total, cap) == [kind |-> "cost", total |-> total, cap |-> cap]

----------------------------------------------------------------------------
(* Runtime Build Validator: one call of validateRuntimeBuild, step by step. *)
(* A step runs from one await to the next; what the file system and the    *)
(* child processes do is chosen by the environment.                        *)

\* filePath.replace(/\\/g, '/')
RECURSIVE replaceBackslashes(_)
replaceBackslashes(filePath) ==
  IF filePath = "" THEN ""
  ELSE (IF SubSeq(filePath, 1, 1) = "\\" THEN "/" ELSE SubSeq(filePath, 1, 1))
       \o replaceBackslashes(SubSeq(filePath, 2, Len(filePath)))

\* path.split('/')
pathSegments(path) ==
  LET cuts == occurrences(path, "/")
      cut(k) == IF k = 0 THEN 0
                ELSE IF k > Cardinality(cuts) THEN Len(path) + 1
                ELSE CHOOSE i \in cuts : Cardinality({j \in cuts : j < i}) = k - 1
  IN [k \in 1..(Cardinality(cuts) + 1) |-> SubSeq(path, cut(k - 1) + 1, cut(k) - 1)]

\* the segments of a relative path as path.posix.normalize leaves them:
\* '' and '.' go, '..' takes back the segment before it or stays in front
RECURSIVE normalizeSegments(_, _)
normalizeSegments(segments, kept) ==
  IF segments = <<>> THEN kept
  ELSE IF Head(segments) \in {"", "."} THEN normalizeSegments(Tail(segments), kept)
  ELSE IF Head(segments) = ".." /\ kept # <<>> /\ kept[Len(kept)] # ".."
  THEN normalizeSegments(Tail(segments), SubSeq(kept, 1, Len(kept) - 1))
  ELSE normalizeSegments(Tail(segments), Append(kept, Head(segments)))

RECURSIVE joinSegments(_)
joinSegments(segments) ==
  IF segments = <<>> THEN ""
  ELSE IF Len(segments) = 1 THEN segments[1]
  ELSE segments[1] \o "/" \o joinSegments(Tail(segments))

\* path.posix.normalize of a relative path
posixNormalize(path) ==
  LET kept == normalizeSegments(pathSegments(path), <<>>)
  IN IF kept = <<>> THEN (IF endsWith(path, "/") THEN "./" ELSE ".")
     ELSE joinSegments(kept) \o (IF endsWith(path, "/") THEN "/" ELSE "")

\* normalizePath: None for null
normalizePath_prefixUnchecked(filePath) ==
  LET slashed == replaceBackslashes(filePath)
  IN IF startsWith(slashed, "/") THEN None
     ELSE Some(posixNormalize(slashed))
normalizePath(filePath) ==
  LET slashed == replaceBackslashes(filePath)
  IN IF startsWith(slashed, "/") THEN None
     ELSE IF startsWith(posixNormalize(slashed), "../") THEN None
     ELSE Some(posixNormalize(slashed))

\* /(error|failed|cannot|missing|unexpected|syntax|resolve|invalid)/i
FAILURE_KEYWORDS ==
  {"error", "failed", "cannot", "missing", "unexpected", "syntax", "resolve", "invalid"}

\* output.split(/\r?\n/).map(trim).filter(Boolean), the header, the lines
\* that hold a keyword or else the last 12, 12 entries at most
summarizeFailure(stage, output, timedOut) ==
  LET trimmed == [i \in DOMAIN output |-> trimLine(output[i])]
      lines == SelectSeq(trimmed, LAMBDA line : line # "")
      interesting ==
        slice(SelectSeq(lines, LAMBDA line :
                \E word \in FAILURE_KEYWORDS : includes(toLowerCase(line), word)), 12)
      selected == IF Len(interesting) > 0 THEN interesting
                  ELSE SubSeq(lines, Max(1, Len(lines) - 11), Len(lines))
      header == IF timedOut THEN "Runtime " \o stage \o " timed out."
                ELSE "Runtime " \o stage \o " command failed."
  IN slice(<<header>> \o selected, 12)

\* file sets handed to the validator
RuntimeInputs ==
  { <<File("index.html", <<"<p>hi</p>">>)>>,
    <<File("package.json", <<"{}">>)>>,
    <<File("package.json", <<"{", scriptMember("test"), "}">>)>>,
    <<File("package.json", <<"not json">>), File("src/App.tsx", <<"export {};">>)>>,
    <<File("package.json", <<"{", scriptMember("build"), "}">>), File("../outside.js", <<"1">>)>>,
    <<File("package.json", <<"{", scriptMember("build"), scriptMember("test"), "}">>),
      File("src/main.tsx", <<"export {};">>)>>,
    <<File("package.json", <<"{}">>), File("a/../../x.js", <<"1">>), File("/etc/passwd", <<"1">>),
      File("..\\x.js", <<"1">>), File("src\\App.tsx", <<"1">>), File("a/../b.js", <<"1">>)>>,
    <<File("package.json", <<"{}">>), File("a/../..", <<"1">>), File("src/App.tsx", <<"1">>)>>,
    <<File("package.json", <<"{}">>), File("..", <<"1">>)>> }

\* JSON.parse of package.json (part_011:565-576), for each input that has one
parsedPackage ==
  [fs \in {input \in RuntimeInputs : hasPath(input, "package.json")} |->
     parseJson(fileAt(fs, "package.json").content)]

NoCommand ==
  [stage |-> "", running |-> FALSE, timedOut |-> FALSE, signals |-> <<>>, held |-> FALSE]

\* spawn and the arming of the timer (part_011:436-454)
spawned(stage) ==
  [stage |-> stage, running |-> TRUE, timedOut |-> FALSE, signals |-> <<>>, held |-> FALSE]

RuntimeIdle ==
  [pc |-> "idle", files |-> <<>>, outputStack |-> "", tests |-> FALSE,
   tempRoot |-> "none", written |-> {}, command |-> NoCommand, commands |-> <<>>,
   rmCalled |-> FALSE, pending |-> None, outcome |-> None]

Returned(passed, phase, issues) ==
  [kind |-> "return", passed |-> passed, phase |-> phase, issues |-> issues]

\* a rejected promise that no handler of the function catches
Thrown == [kind |-> "throw", passed |-> FALSE, phase |-> "", issues |-> <<>>]

\* a return statement inside the try block, or the one of the catch
\* block: the value waits for the finally block
leaveTry_withoutFinally(rt, result) ==
  [rt EXCEPT !.pc = "done", !.outcome = Some(result), !.command = NoCommand]
leaveTry(rt, result) ==
  [rt EXCEPT !.pc = "finally", !.pending = Some(result), !.command = NoCommand]

\* catch (error) { return { passed: false, phase: 'build', ... } }
crashed(rt) ==
  leaveTry(rt, Returned(FALSE, "build", <<"Runtime validator crashed: error">>))

\* process.env.FLASHBUILD_RUNTIME_TESTS === '1' && parsedPackage.scripts?.test
wantsTests(rt) == rt.tests /\ "test" \in parsedPackage[rt.files].v.scripts

hasBuild(rt) == "build" \in parsedPackage[rt.files].v.scripts

succeeded_phaseOfLastCommand(rt) ==
  leaveTry(rt, Returned(TRUE, Last(rt.commands).stage, <<>>))
succeeded(rt) ==
  leaveTry(rt, Returned(TRUE, IF hasBuild(rt) THEN "build" ELSE "install", <<>>))

\* from the result of runCommand to the next await (part_011:564-614)
afterCommand(rt, code, output) ==
  LET stage == rt.command.stage
      timedOut == rt.command.timedOut
      logged == [rt EXCEPT !.commands = Append(@, [stage |-> stage, code |-> code,
                                                   timedOut |-> timedOut])]
  IN IF code # 0
     THEN leaveTry(logged, Returned(FALSE, stage, summarizeFailure(stage, output, timedOut)))
     ELSE IF stage = "install"
     THEN IF ~parsedPackage[rt.files].some THEN crashed(logged)
          ELSE IF hasBuild(rt) THEN [logged EXCEPT !.pc = "build", !.command = spawned("build")]
          ELSE IF wantsTests(rt) THEN [logged EXCEPT !.pc = "test", !.command = spawned("test")]
          ELSE succeeded(logged)
     ELSE IF stage = "build" /\ wantsTests(rt)
     THEN [logged EXCEPT !.pc = "test", !.command = spawned("test")]
     ELSE succeeded(logged)

----------------------------------------------------------------------------
(* Reference Ingestor (part_012): the URLs of a request, the hosts they    *)
(* name and what the resolver answers for them.                            *)

\* an IPv4 address as split('.').map(Number) reads it; an IPv6 address as
\* its text, with the IPv4 address it embeds (IPv4-mapped form), if any
IPv4(a, b, c, d) == [family |-> 4, parts |-> <<a, b, c, d>>, text |-> "", embedded |-> <<>>]
IPv6(text, embedded) == [family |-> 6, parts |-> <<>>, text |-> text, embedded |-> embedded]

PUBLIC_ADDRESS == IPv4(93, 184, 216, 34)

\* dns.lookup(hostname, {all: true}): the addresses, or {} when it rejects;
\* an address literal resolves to itself
Resolver ==
  [ host \in {"site.example", "hop.example", "inner.example", "mixed.example",
              "mapped.example", "gone.example", "10.0.0.5", "localhost",
              "printer.local"} |->
      CASE host \in {"site.example", "hop.example"} -> {PUBLIC_ADDRESS}
        [] host = "inner.example" -> {IPv4(169, 254, 169, 254)}
        [] host = "mixed.example" -> {PUBLIC_ADDRESS, IPv6("fe80::1", <<>>)}
        [] host = "mapped.example" -> {IPv6("::ffff:10.0.0.5", <<10, 0, 0, 5>>)}
        [] host = "gone.example" -> {}
        [] host = "10.0.0.5" -> {IPv4(10, 0, 0, 5)}
        [] host = "localhost" -> {IPv4(127, 0, 0, 1), IPv6("::1", <<>>)}
        [] host = "printer.local" -> {IPv4(192, 168, 1, 20)} ]

LOCAL_HOSTNAMES == {"localhost", "127.0.0.1", "::1", "0.0.0.0"}

\* net.isIP(hostname) for the hosts above
isIP(hostname) == hostname \in {"10.0.0.5", "127.0.0.1", "0.0.0.0"}

isPrivateIPv4(parts) ==
  LET a == parts[1]
      b == parts[2]
  IN \/ a = 10 \/ a = 127 \/ a = 0
     \/ a = 169 /\ b = 254
     \/ a = 172 /\ b >= 16 /\ b <= 31
     \/ a = 192 /\ b = 168
     \/ a = 100 /\ b >= 64 /\ b <= 127
     \/ a = 198 /\ (b = 18 \/ b = 19)

isPrivateIPv6(ip) ==
  LET lower == toLowerCase(ip)
  IN \/ lower = "::1"
     \/ \E prefix \in {"fc", "fd", "fe8", "fe9", "fea", "feb"} : startsWith(lower, prefix)

isPrivateAddress(address) ==
  IF address.family = 4 THEN isPrivateIPv4(address.parts)
  ELSE isPrivateIPv6(address.text)

\* new URL(rawUrl): protocol, hostname and href, or invalid
parseUrl(raw) ==
  LET colon == indexOf(raw, "://")
      rest == SubSeq(raw, colon + 3, Len(raw))
      slash == indexOf(rest, "/")
      host == IF slash = 0 THEN rest ELSE SubSeq(rest, 1, slash - 1)
  IN IF colon <= 1 \/ host = "" \/ includes(raw, " ")
     THEN [valid |-> FALSE, protocol |-> "", hostname |-> "", href |-> ""]
     ELSE [valid |-> TRUE,
           protocol |-> SubSeq(raw, 1, colon),
           hostname |-> toLowerCase(host),
           href |-> SubSeq(raw, 1, colon + 2) \o toLowerCase(host)
                    \o (IF slash = 0 THEN "/" ELSE SubSeq(rest, slash, Len(rest)))]

\* new URL(location, url)
resolveUrl(location, base) ==
  IF startsWith(location, "/")
  THEN parseUrl(base.protocol \o "//" \o base.hostname \o location)
  ELSE parseUrl(location)

\* assertSafeRemote: the message of the error it throws, "" when it returns
assertSafeRemote(url) ==
  IF url.protocol # "https:" THEN "Only https:// URLs are allowed"
  ELSE IF url.hostname \in LOCAL_HOSTNAMES \/ endsWith(url.hostname, ".local")
  THEN "Local and private hosts are not allowed"
  ELSE IF isIP(url.hostname) /\ isPrivateAddress(CHOOSE a \in Resolver[url.hostname] : TRUE)
  THEN "Private network addresses are not allowed"
  ELSE IF Resolver[url.hostname] = {}
  THEN "Unable to resolve host safely. Please verify the URL is public and reachable."
  ELSE IF \E entry \in Resolver[url.hostname] : isPrivateAddress(entry)
  THEN "Resolved host points to a private network address"
  ELSE ""

MAX_REDIRECTS == 2

IngestionIdle ==
  [pc |-> "idle", urls |-> <<>>, i |-> 0, url |-> parseUrl(""), depth |-> 0,
   error |-> "", failed |-> {}, requests |-> <<>>, warnings |-> <<>>,
   domSegments |-> <<>>, bundle |-> None, rejected |-> FALSE]

\* a throw inside ingestUrlReference: control goes to the catch block of
\* the loop in ingestReferences
raise(g, message) ==
  [g EXCEPT !.pc = "catch", !.error = message, !.failed = @ \cup {g.i}]

\* catch (error) { warnings.push(`Failed to ingest ${rawUrl}: ${message}`) }
caught_rethrowing(g) ==
  [g EXCEPT !.pc = "done", !.rejected = TRUE]
caught(g) ==
  [g EXCEPT !.pc = "next", !.i = @ + 1, !.error = "",
            !.warnings = Append(@, "Failed to ingest " \o g.urls[g.i] \o ": " \o g.error)]

NO_SCREENSHOTS == "No URL screenshots were captured. Upload at least one screenshot for strict visual matching."

----------------------------------------------------------------------------
(* The response stream (route.ts:105-109, 529-537): the controller of the  *)
(* ReadableStream that start() writes to, and the consumer that reads it.  *)

MaxEvents == 3             \* events a run pushes before its last line

INVALID_STATE == "Invalid state: Controller is already closed"
STAGE_FAILURE == "Model request failed"

DeliveryIdle ==
  [pc |-> "idle", state |-> "readable", closeRequested |-> FALSE, queue |-> <<>>,
   delivered |-> <<>>, sends |-> 0, cancelled |-> FALSE, caught |-> None,
   pending |-> None]

\* ReadableStreamDefaultControllerCanCloseOrEnqueue
canCloseOrEnqueue(d) == d.state = "readable" /\ ~d.closeRequested

\* controller.enqueue(chunk): the chunk joins the queue at once, or the call
\* throws a TypeError when the stream is no longer readable
enqueue(d, chunk) ==
  IF canCloseOrEnqueue(d)
  THEN [threw |-> FALSE, d |-> [d EXCEPT !.queue = Append(@, chunk), !.sends = @ + 1]]
  ELSE [threw |-> TRUE, d |-> [d EXCEPT !.sends = @ + 1]]

\* controller.close(): the stream closes when its queue is drained
close(d) ==
  IF canCloseOrEnqueue(d)
  THEN [threw |-> FALSE,
        d |-> [d EXCEPT !.closeRequested = TRUE,
                        !.state = IF d.queue = <<>> THEN "closed" ELSE @]]
  ELSE [threw |-> TRUE, d |-> d]

\* const send = (chunk) => { controller.enqueue(encoder.encode(...)) }
send(d, chunk) == enqueue(d, chunk)

----------------------------------------------------------------------------
(* POST /api/generate *)

Init ==
  /\ pc = "request"
  /\ response = "none"
  /\ rejection = ""
  /\ normalized = None
  /\ env \in Envs
  /\ stream = <<>>
  /\ closed = FALSE
  /\ totalEstimatedCost = 0
  /\ files = <<>>
  /\ spec = None
  /\ runtimeHint = None
  /\ packageManifest = None
  /\ responsiveReport = None
  /\ policyNotes = <<>>
  /\ lastRuntimeStable = None
  /\ generated = None
  /\ validation = None
  /\ retries = 0
  /\ stages = <<>>
  /\ calls = <<>>
  /\ references = None
  /\ lastCall = None
  /\ passes = <<>>
  /\ reverted = FALSE
  /\ evaluation = None
  /\ runtime = RuntimeIdle
  /\ delivery = DeliveryIdle
  /\ ingestion = IngestionIdle

pipelineVars == <<totalEstimatedCost, files, spec, runtimeHint, packageManifest,
                  responsiveReport, policyNotes, lastRuntimeStable, generated,
                  validation, retries, calls, references, lastCall, passes, reverted>>

\* route.ts:79-104: the synchronous checks, then the stream is created
Post ==
  /\ pc = "request"
  /\ \E body \in Bodies :
       IF validationError(body) # ""
       THEN /\ response' = "400"
            /\ rejection' = validationError(body)
            /\ pc' = "rejected"
            /\ UNCHANGED normalized
       ELSE /\ response' = "stream"
            /\ normalized' = normalizeRequest(body)
            /\ UNCHANGED rejection
            /\ pc' = "ingest"
  /\ UNCHANGED <<env, stream, closed, stages, runtime, evaluation, delivery, ingestion>>
  /\ UNCHANGED pipelineVars

\* ingestReferences reads request.images.map, request.urls and
\* request.prompt.trim() without a guard: an absent field is a TypeError
ingestReferencesThrows(request) ==
  ~request.images.some \/ ~request.urls.some \/ ~request.prompt.some

\* route.ts:136-168
Ingest ==
  /\ pc = "ingest"
  /\ stages' = Append(stages, "Ingest")
  /\ IF ingestReferencesThrows(normalized)
     THEN /\ Fatal(<<EventLine("ingesting", 5)>>, [kind |-> "exception"])
          /\ UNCHANGED references
     ELSE /\ \E refs \in ReferenceBundles : references' = refs
          /\ stream' = stream \o <<EventLine("ingesting", 5), EventLine("ingesting", 15),
                                   EventLine("planning", 22)>>
          /\ pc' = "spec"
          /\ UNCHANGED closed
  /\ UNCHANGED <<runtime, evaluation, delivery, ingestion, response, rejection, normalized, env, lastCall, totalEstimatedCost, files, spec, runtimeHint,
                 packageManifest, responsiveReport, policyNotes, lastRuntimeStable,
                 generated, validation, retries, calls, passes, reverted>>

\* route.ts:170-199: extractDesignSpec on an answer that is not JSON, addCost
Extract ==
  /\ pc = "spec"
  /\ stages' = Append(stages, "Spec")
  /\ \E o \in CallOutcomes :
       /\ lastCall' = [stage |-> "Spec", outcome |-> o]
       /\ IF o.kind # "ok"
          THEN /\ Fatal(<<>>, callErrorMessage(normalized.provider, o))
               /\ UNCHANGED <<spec, calls, totalEstimatedCost>>
          ELSE LET usage == usageOf(normalized.provider, o)
                   total == addCostTotal(totalEstimatedCost, usage.estimatedCostUsd)
               IN /\ \E raw \in UnparsableAnswers :
                       spec' = extractDesignSpec(safeJsonParse(raw), normalized.outputStack)
                  /\ calls' = Append(calls, usage.estimatedCostUsd)
                  /\ totalEstimatedCost' = total
                  /\ IF costExceeded(total, normalized.constraints.maxCostUsd)
                     THEN Fatal(<<>>, costMessage(total, normalized.constraints.maxCostUsd))
                     ELSE /\ stream' = stream \o <<EventLine("planning", 35), EventLine("coding", 45)>>
                          /\ pc' = "build"
                          /\ UNCHANGED closed
  /\ UNCHANGED <<runtime, evaluation, delivery, ingestion, response, rejection, normalized, env, files, runtimeHint, packageManifest,
                 responsiveReport, policyNotes, lastRuntimeStable, generated, validation,
                 retries, references, passes, reverted>>

\* await generateProject(...): one Builder call (route.ts:201-208, 333-342)
BuilderCall(nextPc) ==
  /\ stages' = Append(stages, "Build")
  /\ \E o \in CallOutcomes :
       /\ lastCall' = [stage |-> "Build", outcome |-> o]
       /\ IF o.kind # "ok"
          THEN /\ Fatal(<<>>, callErrorMessage(normalized.provider, o))
               /\ UNCHANGED <<generated, calls>>
          ELSE /\ \E r \in Responses :
                    generated' = [files |-> generateProjectResults[r],
                                  usage |-> usageOf(normalized.provider, o)]
               /\ calls' = Append(calls, usageOf(normalized.provider, o).estimatedCostUsd)
               /\ pc' = nextPc
               /\ UNCHANGED <<stream, closed>>
  /\ UNCHANGED <<runtime, evaluation, delivery, ingestion, response, rejection, normalized, env, totalEstimatedCost, files, spec, runtimeHint,
                 packageManifest, responsiveReport, policyNotes, lastRuntimeStable,
                 validation, retries, references, passes, reverted>>

\* route.ts:217-246
afterFirstPolicy(hint) ==
  <<EventLine("compiling", 60)>>
  \o (IF hint.preferredRuntime = "remote" THEN <<EventLine("runtime_fallback", 64)>> ELSE <<>>)
  \o <<EventLine("validating", 68)>>

\* enforcePackagePolicy, the assignments, then addCost of the Builder's
\* usage (route.ts:209-215, 343-349)
PolicyStep(firstPass, nextPc) ==
  \E policy \in {enforcePackagePolicyResults[generated.files, normalized.outputStack]},
     total \in {addCostTotal(totalEstimatedCost, generated.usage.estimatedCostUsd)} :
     /\ stages' = Append(stages, "Policy")
     /\ files' = policy.files
     /\ runtimeHint' = policy.runtimeHint
     /\ packageManifest' = policy.manifest
     /\ responsiveReport' = policy.responsiveReport
     /\ policyNotes' = policyNotes \o policy.notes
     /\ totalEstimatedCost' = total
     /\ IF costExceeded(total, normalized.constraints.maxCostUsd)
        THEN Fatal(<<>>, costMessage(total, normalized.constraints.maxCostUsd))
        ELSE /\ stream' = stream \o (IF firstPass THEN afterFirstPolicy(policy.runtimeHint)
                                                     ELSE <<>>)
             /\ pc' = nextPc
             /\ UNCHANGED closed
     /\ UNCHANGED <<runtime, evaluation, delivery, ingestion, response, rejection, normalized, env, lastCall, spec, lastRuntimeStable, generated,
                    validation, retries, calls, references, passes, reverted>>

\* await validateOutput(...), addCost of the reviewer's usage
\* (route.ts:248-258, 351-361)
ValidateStep(sentAfter, nextPc) ==
  /\ stages' = Append(stages, "Validate")
  /\ \E o \in CallOutcomes :
       /\ lastCall' = [stage |-> "Validate", outcome |-> o]
       /\ IF o.kind # "ok"
          THEN /\ Fatal(<<>>, callErrorMessage(normalized.provider, o))
               /\ UNCHANGED <<validation, calls, totalEstimatedCost>>
          ELSE LET usage == usageOf(normalized.provider, o)
                   total == addCostTotal(totalEstimatedCost, usage.estimatedCostUsd)
               IN /\ \E reviewer \in ReviewerResponses :
                       validation' = [report |-> validateOutputResults[reviewer, files, references,
                                                                     normalized.qualityMode,
                                                                     normalized.outputStack],
                                      usage |-> usage]
                  /\ calls' = Append(calls, usage.estimatedCostUsd)
                  /\ totalEstimatedCost' = total
                  /\ IF costExceeded(total, normalized.constraints.maxCostUsd)
                     THEN Fatal(<<>>, costMessage(total, normalized.constraints.maxCostUsd))
                     ELSE /\ stream' = stream \o sentAfter
                          /\ pc' = nextPc
                          /\ UNCHANGED closed
  /\ UNCHANGED <<runtime, evaluation, delivery, ingestion, response, rejection, normalized, env, files, spec, runtimeHint, packageManifest,
                 responsiveReport, policyNotes, lastRuntimeStable, generated, retries,
                 references, passes, reverted>>

Build == pc = "build" /\ BuilderCall("policy")

Policy == pc = "policy" /\ PolicyStep(TRUE, "validate")

Validate == pc = "validate" /\ ValidateStep(<<EventLine("compiling", 72)>>, "runtime")

\* the report after a failed runtime build (route.ts:274-283, 386-395)
markRuntimeFailure_keepingVerdict(report, runtimeIssues) ==
  [report EXCEPT !.retryRecommended = TRUE,
                 !.issues = uniqStrings(report.issues \o runtimeIssues),
                 !.patchInstructions = mergePatchInstructions(report.patchInstructions,
                                                              runtimeIssues)]
markRuntimeFailure(report, runtimeIssues) ==
  [report EXCEPT !.accepted = FALSE,
                 !.retryRecommended = TRUE,
                 !.issues = uniqStrings(report.issues \o runtimeIssues),
                 !.patchInstructions = mergePatchInstructions(report.patchInstructions,
                                                              runtimeIssues)]

\* route.ts:307-313, 424-430
stableSnapshot(fs, hint, manifest, responsive, report) ==
  [files |-> fs, runtimeHint |-> hint, packageManifest |-> manifest,
   responsiveReport |-> responsive, report |-> report]

passRecord(result, report) ==
  [files |-> files, runtimeHint |-> runtimeHint, packageManifest |-> packageManifest,
   responsiveReport |-> responsiveReport, report |-> report,
   passed |-> result.passed, phase |-> result.phase]

\* route.ts:306 and route.ts:414: when a pass's result is recorded as stable
firstPassIsStable_always(result) == TRUE
firstPassIsStable(result) == result.passed

repairPassIsStable(result) == result.passed /\ result.phase # "skipped"

\* route.ts:269-316: first runtime build validation
RuntimeValidate ==
  /\ pc = "runtime"
  /\ stages' = Append(stages, "RuntimeValidate")
  /\ \E o \in RuntimeOutcomes :
       IF shouldRunRuntimeValidation(normalized.outputStack, env) /\ o = "throws"
       THEN /\ Fatal(<<>>, [kind |-> "exception"])
            /\ UNCHANGED <<validation, policyNotes, lastRuntimeStable, retries, passes>>
       ELSE LET result == validateRuntimeBuild(files, normalized.outputStack, env, o)
                report == IF ~result.passed
                          THEN markRuntimeFailure(validation.report, result.issues)
                          ELSE validation.report
            IN /\ validation' = [validation EXCEPT !.report = report]
               /\ stream' = stream \o (IF ~result.passed \/ result.phase # "skipped"
                                       THEN <<EventLine("compiling", 74)>> ELSE <<>>)
               /\ policyNotes' = IF result.passed /\ result.phase = "skipped"
                                    /\ Len(result.issues) > 0
                                 THEN policyNotes \o result.issues ELSE policyNotes
               /\ lastRuntimeStable' =
                    IF firstPassIsStable(result)
                    THEN stableSnapshot(files, runtimeHint, packageManifest,
                                        responsiveReport, report)
                    ELSE lastRuntimeStable
               /\ passes' = Append(passes, passRecord(result, report))
               /\ retries' = 0
               /\ pc' = "loop"
               /\ UNCHANGED closed
  /\ UNCHANGED <<runtime, evaluation, delivery, ingestion, response, rejection, normalized, env, lastCall, totalEstimatedCost, files, spec, runtimeHint,
                 packageManifest, responsiveReport, generated, calls, references, reverted>>

\* the while condition (route.ts:317-321); maxRetries is in units of 1/RetryScale
shouldRepair(report, n, maxRetries) ==
  ~report.accepted /\ report.retryRecommended /\ n * RetryScale < maxRetries

\* route.ts:322-331
StartRepair ==
  /\ pc = "loop"
  /\ shouldRepair(validation.report, retries, normalized.constraints.maxRetries)
  /\ retries' = retries + 1
  /\ stream' = stream \o <<EventLine("reviewing", 76)>>
  /\ pc' = "repairBuild"
  /\ UNCHANGED <<runtime, evaluation, delivery, ingestion, response, rejection, normalized, env, lastCall, closed, totalEstimatedCost, files, spec,
                 runtimeHint, packageManifest, responsiveReport, policyNotes,
                 lastRuntimeStable, generated, validation, stages, calls, references,
                 passes, reverted>>

EndRepairLoop ==
  /\ pc = "loop"
  /\ ~shouldRepair(validation.report, retries, normalized.constraints.maxRetries)
  /\ pc' = "finalize"
  /\ UNCHANGED <<runtime, evaluation, delivery, ingestion, response, rejection, normalized, env, lastCall, stream, closed, totalEstimatedCost, files, spec,
                 runtimeHint, packageManifest, responsiveReport, policyNotes,
                 lastRuntimeStable, generated, validation, retries, stages, calls,
                 references, passes, reverted>>

RepairBuild == pc = "repairBuild" /\ BuilderCall("repairPolicy")

RepairPolicy == pc = "repairPolicy" /\ PolicyStep(FALSE, "repairValidate")

RepairValidate ==
  pc = "repairValidate" /\ ValidateStep(<<EventLine("compiling", 82)>>, "repairRuntime")

\* route.ts:397-402: the in-flight state after the rollback
revertTo_keepingRepair(stable, current) ==
  [current EXCEPT !.report = [stable.report EXCEPT !.retryRecommended = FALSE]]
revertTo(stable, current) ==
  [files |-> stable.files,
   runtimeHint |-> stable.runtimeHint,
   packageManifest |-> stable.packageManifest,
   responsiveReport |-> stable.responsiveReport,
   report |-> [stable.report EXCEPT !.retryRecommended = FALSE]]

\* route.ts:372-434: runtime build validation of a repair pass
RepairRuntimeValidate ==
  /\ pc = "repairRuntime"
  /\ stages' = Append(stages, "RuntimeValidate")
  /\ \E o \in RuntimeOutcomes :
       IF shouldRunRuntimeValidation(normalized.outputStack, env) /\ o = "throws"
       THEN /\ Fatal(<<>>, [kind |-> "exception"])
            /\ UNCHANGED <<validation, policyNotes, lastRuntimeStable, passes, files,
                           runtimeHint, packageManifest, responsiveReport, reverted>>
       ELSE LET result == validateRuntimeBuild(files, normalized.outputStack, env, o)
                failed == markRuntimeFailure(validation.report, result.issues)
                current == stableSnapshot(files, runtimeHint, packageManifest,
                                          responsiveReport, failed)
                back == revertTo(lastRuntimeStable, current)
            IN /\ UNCHANGED closed
               /\ IF ~result.passed
                  THEN /\ passes' = Append(passes, passRecord(result, failed))
                       /\ UNCHANGED <<policyNotes, lastRuntimeStable>>
                       /\ IF lastRuntimeStable # None
                          THEN /\ files' = back.files
                               /\ runtimeHint' = back.runtimeHint
                               /\ packageManifest' = back.packageManifest
                               /\ responsiveReport' = back.responsiveReport
                               /\ validation' = [validation EXCEPT !.report = back.report]
                               /\ stream' = stream \o <<EventLine("compiling", 83),
                                                        EventLine("compiling", 84)>>
                               /\ reverted' = TRUE
                               /\ pc' = "finalize"
                          ELSE /\ validation' = [validation EXCEPT !.report = failed]
                               /\ stream' = stream \o <<EventLine("compiling", 83)>>
                               /\ pc' = "loop"
                               /\ UNCHANGED <<files, runtimeHint, packageManifest,
                                              responsiveReport, reverted>>
                  ELSE /\ passes' = Append(passes, passRecord(result, validation.report))
                       /\ pc' = "loop"
                       /\ UNCHANGED <<files, runtimeHint, packageManifest, responsiveReport,
                                      validation, reverted>>
                       /\ IF result.phase # "skipped"
                          THEN /\ stream' = stream \o <<EventLine("compiling", 83)>>
                               /\ UNCHANGED policyNotes
                          ELSE /\ policyNotes' = IF Len(result.issues) > 0
                                                 THEN policyNotes \o result.issues
                                                 ELSE policyNotes
                               /\ UNCHANGED stream
                       /\ lastRuntimeStable' =
                            IF repairPassIsStable(result)
                            THEN stableSnapshot(files, runtimeHint, packageManifest,
                                                responsiveReport, validation.report)
                            ELSE lastRuntimeStable
  /\ UNCHANGED <<runtime, evaluation, delivery, ingestion, response, rejection, normalized, env, lastCall, totalEstimatedCost, spec, generated, retries,
                 calls, references>>

\* route.ts:453-459
overrideRuntimeHint(hint, preference) ==
  IF preference # "auto" /\ hint # None
  THEN [hint EXCEPT !.preferredRuntime = preference, !.reason = "overridden"]
  ELSE hint

\* route.ts:436-451
finalResponsiveReport(current, report) ==
  IF Len(report.responsiveWarnings) > 0
  THEN [passed |-> FALSE, warnings |-> report.responsiveWarnings]
  ELSE current

\* route.ts:473-485: a 'coding' event and a file line per file
fileLines_withoutLast(fs) ==
  [k \in 1..(2 * (Len(fs) - 1)) |->
     IF k % 2 = 1
     THEN EventLine("coding", 86 + (18 * ((k + 1) \div 2) + Len(fs)) \div (2 * Len(fs)))
     ELSE FileLine(fs[k \div 2])]
fileLines(fs) ==
  [k \in 1..(2 * Len(fs)) |->
     IF k % 2 = 1
     THEN EventLine("coding", 86 + (18 * ((k + 1) \div 2) + Len(fs)) \div (2 * Len(fs)))
     ELSE FileLine(fs[k \div 2])]

\* route.ts:487-528: metadata, policy notes, complete, done
closingLines_errorAfterDone(metadata, notes) ==
  <<MetadataLine(metadata)>>
  \o (IF Len(uniqStrings(notes)) > 0 THEN <<EventLine("reviewing", 96)>> ELSE <<>>)
  \o <<EventLine("complete", 100), DoneLine, ErrorLine([kind |-> "exception"])>>
closingLines(metadata, notes) ==
  <<MetadataLine(metadata)>>
  \o (IF Len(uniqStrings(notes)) > 0 THEN <<EventLine("reviewing", 96)>> ELSE <<>>)
  \o <<EventLine("complete", 100), DoneLine>>

\* route.ts:436-528 and the finally block
Finalize ==
  /\ pc = "finalize"
  /\ stages' = Append(stages, "Finalize")
  /\ LET report == validation.report
         responsive == finalResponsiveReport(responsiveReport, report)
         hint == overrideRuntimeHint(runtimeHint, normalized.previewRuntimePreference)
         metadata == [framework |-> IF normalized.outputStack = "react-tailwind"
                                    THEN "React + Tailwind" ELSE "Vanilla HTML/CSS/JS",
                      runtimeHint |-> hint,
                      packageManifest |-> packageManifest,
                      responsiveReport |-> IF responsive = None
                                           THEN [passed |-> TRUE, warnings |-> <<>>]
                                           ELSE responsive]
     IN /\ responsiveReport' = responsive
        /\ runtimeHint' = hint
        /\ stream' = stream
             \o (IF Len(report.responsiveWarnings) > 0
                 THEN <<EventLine("responsive_check", 84)>> ELSE <<>>)
             \o <<EventLine("validating", 85)>>
             \o fileLines(files)
             \o closingLines(metadata, policyNotes)
  /\ closed' = TRUE
  /\ pc' = "closed"
  /\ UNCHANGED <<runtime, evaluation, delivery, ingestion, response, rejection, normalized, env, lastCall, totalEstimatedCost, files, spec, packageManifest,
                 policyNotes, lastRuntimeStable, generated, validation, retries, calls,
                 references, passes, reverted>>

Next ==
  \/ Post
  \/ Ingest
  \/ Extract
  \/ Build
  \/ Policy
  \/ Validate
  \/ RuntimeValidate
  \/ StartRepair
  \/ EndRepairLoop
  \/ RepairBuild
  \/ RepairPolicy
  \/ RepairValidate
  \/ RepairRuntimeValidate
  \/ Finalize

Spec == Init /\ [][Next]_vars

\* every await of the handler eventually settles
FairSpec == Spec /\ WF_vars(Next)

TypeOK ==
  /\ pc \in {"request", "rejected", "ingest", "spec", "build", "policy", "validate",
             "runtime", "loop", "repairBuild", "repairPolicy", "repairValidate",
             "repairRuntime", "finalize", "closed"}
  /\ response \in {"none", "400", "stream"}
  /\ (rejection # "") = (response = "400")
  /\ closed \in BOOLEAN
  /\ retries \in 0..3

----------------------------------------------------------------------------
(* The stage functions applied on their own, to inputs the orchestrator's   *)
(* runs above do not produce.  evaluation records the input and the result. *)

requestVars == <<pc, response, rejection, normalized, env, stream, closed,
                 totalEstimatedCost, files, spec, runtimeHint, packageManifest,
                 responsiveReport, policyNotes, lastRuntimeStable, generated,
                 validation, retries, stages, calls, references, lastCall, passes,
                 reverted>>

\* lines of a long patch text of the reviewer
LongPatchLines == 21

\* what safeJsonParse makes of a reviewer's text: a verdict with or without
\* critical issues; text that is not JSON reads as no pass and no issue
ReviewerVerdicts ==
  ReviewerResponses
  \cup { [functionalPass |-> TRUE, criticalIssues |-> <<"Save button does nothing">>,
          patchInstructions |-> <<>>],
         [functionalPass |-> FALSE, criticalIssues |-> <<>>, patchInstructions |-> <<>>],
         [functionalPass |-> FALSE, criticalIssues |-> <<"Save button does nothing">>,
          patchInstructions |-> <<[bullet |-> TRUE, text |-> "Save button does nothing"]>>],
         [functionalPass |-> FALSE, criticalIssues |-> <<"Save button does nothing">>,
          patchInstructions |-> [i \in 1..LongPatchLines |-> TextLine("Step " \o ToString(i))]] }

IssueLists == { <<>>, <<"Missing referenced file: app.js">> }
WarningLists == { <<>>, <<"Missing viewport meta tag.">> }

\* style and interaction scores: the ends, the defaults, and values around
\* the thresholds
SampleScores == {0, 50, 60, 70, 75, 80, 100}

ApplyValidateOutput ==
  \E reviewer \in ReviewerVerdicts, detIssues \in IssueLists, warnings \in WarningLists,
     styleScore \in SampleScores, interactionScore \in SampleScores, mode \in QualityModes :
    /\ evaluation = None
    /\ evaluation' =
         [fn |-> "validateOutput",
          reviewer |-> reviewer,
          deterministicIssues |-> detIssues,
          responsiveWarnings |-> warnings,
          qualityMode |-> mode,
          report |-> qualityReport(reviewer, detIssues, warnings,
                                   weightedVisualScore(styleScore, interactionScore), mode)]
    /\ UNCHANGED <<requestVars, runtime, delivery, ingestion>>

\* paths a model can write in a ---FILE: header
HeaderPaths ==
  {"index.html", "src/App.tsx", " src/app.js ", "../outside.js", "/etc/passwd",
   "src/../../up.js"}

\* an answer of the model that holds one file block
answerWith(path, content) == <<FILE_HEADER \o " " \o path \o "---">> \o content \o <<END_MARKER>>

\* the way of a Builder answer to the stream: generateProject, then
\* enforcePackagePolicy, then the file lines of the finalization
\* (route.ts:201-214, 473-485)
ApplyEmitFiles ==
  \E path \in HeaderPaths, outputStack \in OutputStacks :
    /\ evaluation = None
    /\ evaluation' =
         [fn |-> "emitFiles",
          path |-> path,
          outputStack |-> outputStack,
          lines |-> fileLines(
                      enforcePackagePolicy(
                        generateProjectFiles(answerWith(path, <<"export {};">>)),
                        outputStack).files)]
    /\ UNCHANGED <<requestVars, runtime, delivery, ingestion>>

\* what safeJsonParse makes of the reviewer's text at the end of a pass;
\* a text that is not JSON gives null: no pass, no issue, no patch text
RepairVerdicts ==
  ReviewerResponses
  \cup {[functionalPass |-> FALSE, criticalIssues |-> <<>>, patchInstructions |-> <<>>]}

\* one turn of the repair loop up to its Builder call: the report of
\* validateOutput, the runtime issues merged into it when the build failed,
\* the while condition, and the user input of generateProject
\* (route.ts:248-283, 316-342)
ApplyRepairRequest ==
  \E reviewer \in RepairVerdicts, fs \in PolicyFileSets, mode \in QualityModes,
     outputStack \in OutputStacks,
     runtimeIssues \in {<<>>, <<"Runtime build command failed.", "error TS2304">>} :
    LET quality == validateOutputReport(reviewer, fs,
                                        [styleTokens |-> <<>>, interactionHints |-> <<>>],
                                        mode, outputStack)
        report == IF runtimeIssues # <<>> THEN markRuntimeFailure(quality, runtimeIssues)
                  ELSE quality
    IN /\ evaluation = None
       /\ shouldRepair(report, 0, RetryScale)
       /\ evaluation' =
            [fn |-> "repairRequest",
             report |-> report,
             files |-> fs,
             runtimeIssues |-> runtimeIssues,
             request |-> buildUserInput(repairInstructionsOf(report), fs)]
       /\ UNCHANGED <<requestVars, runtime, delivery, ingestion>>

\* paths a model can repeat in two blocks of one answer
RepeatedPaths == {"src/App.tsx", "index.html", "package.json", "app.js"}

\* an answer with two blocks of the same path: generateProject, then
\* enforcePackagePolicy, then the file lines of the finalization
\* (generateProject.ts:130-145, route.ts:209-214, 473-485)
ApplyRepeatedBlocks ==
  \E path \in RepeatedPaths, outputStack \in OutputStacks :
    LET answer == answerWith(path, <<"first">>) \o <<"">> \o answerWith(path, <<"second">>)
        built == generateProjectFiles(answer)
        policy == enforcePackagePolicy(built, outputStack)
    IN /\ evaluation = None
       /\ evaluation' =
            [fn |-> "repeatedBlocks",
             path |-> path,
             outputStack |-> outputStack,
             built |-> built,
             files |-> policy.files,
             lines |-> fileLines(policy.files)]
       /\ UNCHANGED <<requestVars, runtime, delivery, ingestion>>

\* the longest captured output of the model, in lines
MaxOutputLines == 13

\* what a failing command wrote: n lines that hold a keyword, or n lines
\* that hold none, each followed by an empty line
outputOf(keyword, n) ==
  [k \in 1..(2 * n) |->
     IF k % 2 = 0 THEN ""
     ELSE IF keyword THEN "  src/App.tsx: error TS" \o ToString((k + 1) \div 2)
     ELSE "added package " \o ToString((k + 1) \div 2)]

\* summarizeFailure on the output of a failed command (part_011:566-572)
ApplySummarizeFailure ==
  \E stage \in {"install", "build", "test"}, timedOut \in BOOLEAN,
     keyword \in BOOLEAN, n \in 0..MaxOutputLines :
    /\ evaluation = None
    /\ evaluation' =
         [fn |-> "summarizeFailure",
          stage |-> stage,
          timedOut |-> timedOut,
          output |-> outputOf(keyword, n),
          issues |-> summarizeFailure(stage, outputOf(keyword, n), timedOut)]
    /\ UNCHANGED <<requestVars, runtime, delivery, ingestion>>

\* file sets handed to the Enforcer: none, the Builder results, and single
\* files that its rewriting steps read
PolicyInputs ==
  {<<>>}
  \cup {generateProjectResults[r] : r \in Responses}
  \cup {<<File(path, content)>> :
          path \in {"src/styles.css", "styles.css"},
          content \in {<<"body { margin: 0; }">>,
                        <<TAILWIND_IMPORT, "", "body { margin: 0; }", "">>,
                        <<"@tailwind base;", "@tailwind utilities;", "">>,
                        <<".grid { max-width: 100%; }", "@media (min-width: 768px) {}">>}}
  \cup {<<File("postcss.config.js", <<"module.exports = { plugins: {} };">>)>>,
        <<File("package.json", <<"{", "\"test\": \"run test\"", "\"three\"", "}">>)>>,
        <<File("package.json", <<"not json">>)>>}

\* enforcePackagePolicy, and enforcePackagePolicy again on the files it
\* returned
ApplyEnforcePackagePolicy ==
  \E fs \in PolicyInputs, outputStack \in OutputStacks :
    LET once == enforcePackagePolicy(fs, outputStack) IN
      /\ evaluation = None
      /\ evaluation' =
           [fn |-> "enforcePackagePolicy",
            files |-> fs,
            outputStack |-> outputStack,
            once |-> once,
            twice |-> enforcePackagePolicy(once.files, outputStack)]
      /\ UNCHANGED <<requestVars, runtime, delivery, ingestion>>

\* file sets handed to a repair pass: results of the Enforcer, and files
\* whose content is plain, ends with a line feed, is fenced, or holds the
\* end marker
RepairInputs ==
  PolicyFileSets
  \cup {<<>>,
        <<File("index.html", <<"<p>hi</p>">>)>>,
        <<File("index.html", <<"<p>hi</p>">>), File("app.js", <<"let a = 1;", "", "let b = 2;">>)>>,
        <<File("app.js", <<"let a = 1;", "">>)>>,
        <<File("app.js", <<"  let a = 1;">>)>>,
        <<File("README.md", <<FENCE \o "js", "let a = 1;", FENCE>>)>>,
        <<File("notes.txt", <<"the grammar ends a file with", END_MARKER, "on a line">>)>>}

\* existingFiles of buildUserInput, read back by parseFiles
ApplyRoundTrip ==
  \E fs \in RepairInputs :
    /\ evaluation = None
    /\ evaluation' =
         [fn |-> "roundTrip",
          files |-> fs,
          parsed |-> parseFiles(serializeFiles(fs))]
    /\ UNCHANGED <<requestVars, runtime, delivery, ingestion>>

\* what safeJsonParse makes of the Extractor's answers: not JSON, an object
\* without a plan, with an empty plan, with the required plan of a stack,
\* with a plan of its own
SpecAnswers ==
  {None}
  \cup {Some([outputStack |-> stack, filePlan |-> plan]) :
          stack \in {None, Some("vanilla")},
          plan \in {None, Some(<<>>), Some(REACT_FILE_PLAN), Some(VANILLA_FILE_PLAN),
                    Some(<<"main.py">>), Some(<<"index.html", "src/pages/Home.tsx">>)}}

ApplyExtractDesignSpec ==
  \E parsed \in SpecAnswers, outputStack \in OutputStacks :
    /\ evaluation = None
    /\ evaluation' =
         [fn |-> "extractDesignSpec",
          parsed |-> parsed,
          outputStack |-> outputStack,
          spec |-> extractDesignSpec(parsed, outputStack)]
    /\ UNCHANGED <<requestVars, runtime, delivery, ingestion>>

\* a tag of the HTML entry that carries a reference, with the value in
\* double quotes, in single quotes, or without quotes
QuoteStyles == {"double", "single", "bare"}

referenceTag(tag, ref, style) ==
  LET q == CASE style = "double" -> "\"" [] style = "single" -> "'" [] OTHER -> ""
  IN IF tag = "script"
     THEN "<script src=" \o q \o ref \o q \o "></script>"
     ELSE "<link rel=" \o q \o "stylesheet" \o q \o " href=" \o q \o ref \o q \o ">"

\* a responsive page with one reference, and the file it names or not
pageWithReference(tag, ref, style, present) ==
  <<File("index.html",
         << "<meta name=\"viewport\" content=\"width=device-width\" />",
            referenceTag(tag, ref, style) >>),
    File("styles.css", <<".grid { max-width: 100%; }", "@media (min-width: 768px) {}">>)>>
  \o (IF present THEN <<File(ref, <<"">>)>> ELSE <<>>)

\* the deterministic rules, and validateOutput with a reviewer that passes
ApplyCheckMissingHtmlReferences ==
  \E tag \in {"script", "link"}, ref \in {"app.js", "theme/main.css", "https://cdn.example/x.js"},
     style \in QuoteStyles, present \in BOOLEAN :
    LET fs == pageWithReference(tag, ref, style, present) IN
      /\ evaluation = None
      /\ evaluation' =
           [fn |-> "checkMissingHtmlReferences",
            tag |-> tag, ref |-> ref, style |-> style,
            missing |-> ~hasPath(fs, ref),
            issues |-> checkMissingHtmlReferences(fs, extractIndexHtml(fs)),
            report |-> validateOutputReport(
                         [functionalPass |-> TRUE, criticalIssues |-> <<>>,
                          patchInstructions |-> <<>>],
                         fs, [styleTokens |-> <<>>, interactionHints |-> <<>>],
                         "function_first", "vanilla")]
      /\ UNCHANGED <<requestVars, runtime, delivery, ingestion>>

Apply ==
  \/ ApplyCheckMissingHtmlReferences
  \/ ApplyValidateOutput
  \/ ApplyExtractDesignSpec
  \/ ApplyEmitFiles
  \/ ApplyRepeatedBlocks
  \/ ApplyRepairRequest
  \/ ApplySummarizeFailure
  \/ ApplyEnforcePackagePolicy
  \/ ApplyRoundTrip

FunctionSpec == Init /\ [][Apply]_vars

----------------------------------------------------------------------------
(* validateRuntimeBuild, step by step *)

\* what a command wrote to stdout and stderr
CommandOutputs == { <<"">>, <<"npm ERR! missing script: build", "">>, <<"done in 2s", "">> }

\* part_011:516-542: the checks before the directory is asked for
RuntimeCall ==
  /\ runtime.pc = "idle"
  /\ \E fs \in RuntimeInputs, outputStack \in OutputStacks, tests \in BOOLEAN :
       LET rt == [runtime EXCEPT !.files = fs, !.outputStack = outputStack, !.tests = tests]
       IN runtime' =
            IF ~shouldRunRuntimeValidation(outputStack, env)
            THEN [rt EXCEPT !.pc = "done",
                            !.outcome = Some(Returned(TRUE, "skipped",
                              <<"Runtime build validation skipped by environment.">>))]
            ELSE IF ~hasPath(fs, "package.json")
            THEN [rt EXCEPT !.pc = "done",
                            !.outcome = Some(Returned(FALSE, "install",
                              <<"Missing package.json for runtime build validation.">>))]
            ELSE [rt EXCEPT !.pc = "mkdtemp"]
  /\ UNCHANGED <<requestVars, evaluation, delivery, ingestion>>

\* await mkdtemp(...), before the try block (part_011:542)
Mkdtemp ==
  /\ runtime.pc = "mkdtemp"
  /\ \E created \in BOOLEAN :
       runtime' = IF created THEN [runtime EXCEPT !.pc = "write", !.tempRoot = "exists"]
                  ELSE [runtime EXCEPT !.pc = "done", !.outcome = Some(Thrown)]
  /\ UNCHANGED <<requestVars, evaluation, delivery, ingestion>>

\* the paths among the first n files that normalizePath lets through
safePaths(fs, n) ==
  {normalizePath(fs[i].path).v : i \in {j \in 1..n : normalizePath(fs[j].path).some}}

\* path.join(tempRoot, safePath) is tempRoot itself or its parent, an
\* existing directory: writeFile rejects (part_011:547-549)
namesDirectory(safePath) == safePath \in {".", "./", ".."}

writeRejects(file) ==
  normalizePath(file.path).some /\ namesDirectory(normalizePath(file.path).v)

\* the loop that writes the files, then the start of npm install
\* (part_011:544-562); mkdir or writeFile can reject at any file
WriteFiles ==
  /\ runtime.pc = "write"
  /\ \E n \in 0..Len(runtime.files) :
       /\ \A i \in 1..n : ~writeRejects(runtime.files[i])
       /\ runtime' =
         IF n = Len(runtime.files)
         THEN [runtime EXCEPT !.written = safePaths(runtime.files, n),
                              !.pc = "install", !.command = spawned("install")]
         ELSE crashed([runtime EXCEPT !.written = safePaths(runtime.files, n)])
  /\ UNCHANGED <<requestVars, evaluation, delivery, ingestion>>

\* the timer of runCommand fires: timedOut, SIGTERM, and the second timer
\* is armed (part_011:450-454)
CommandTimeout ==
  /\ runtime.command.running
  /\ ~runtime.command.timedOut
  /\ runtime' = [runtime EXCEPT !.command.timedOut = TRUE,
                                !.command.signals = Append(@, "SIGTERM")]
  /\ UNCHANGED <<requestVars, evaluation, delivery, ingestion>>

\* two seconds later the child still runs: SIGKILL.  child is npm
\* (part_011:553-562, 579, 595); the script it runs is a process of its own
\* that was handed npm's stdout and stderr, and child.kill reaches npm
\* alone: held says that the script still runs and keeps the pipes open
CommandKill ==
  /\ runtime.command.running
  /\ runtime.command.signals = <<"SIGTERM">>
  /\ \E held \in BOOLEAN :
       runtime' = [runtime EXCEPT !.command.signals = Append(@, "SIGKILL"),
                                  !.command.held = held]
  /\ UNCHANGED <<requestVars, evaluation, delivery, ingestion>>

\* codes a child can end with: a killed child has no code (code ?? 1); a
\* child that was sent SIGTERM ends by the signal or handles it and exits
\* with a code of its own
exitCodes(command) == IF "SIGKILL" \in Range(command.signals) THEN {1} ELSE {0, 1}

\* child.on('close'), emitted once the process has ended and its stdout
\* and stderr are closed: the promise resolves with the code and timedOut
CommandClose ==
  /\ runtime.command.running
  /\ ~runtime.command.held
  /\ \E code \in exitCodes(runtime.command), output \in CommandOutputs :
       runtime' = afterCommand(runtime, code, output)
  /\ UNCHANGED <<requestVars, evaluation, delivery, ingestion>>

\* child.on('error'): the promise resolves with code 1
CommandError ==
  /\ runtime.command.running
  /\ runtime' = afterCommand(runtime, 1, <<"", "spawn npm ENOENT">>)
  /\ UNCHANGED <<requestVars, evaluation, delivery, ingestion>>

\* finally { await rm(tempRoot, { recursive: true, force: true }) }: the
\* pending return value is delivered when rm resolves, rm's rejection
\* replaces it
RemoveTempRoot ==
  /\ runtime.pc = "finally"
  /\ \E removed \in BOOLEAN :
       runtime' = IF removed
                  THEN [runtime EXCEPT !.pc = "done", !.rmCalled = TRUE,
                                       !.tempRoot = "removed", !.outcome = runtime.pending]
                  ELSE [runtime EXCEPT !.pc = "done", !.rmCalled = TRUE,
                                       !.outcome = Some(Thrown)]
  /\ UNCHANGED <<requestVars, evaluation, delivery, ingestion>>

RuntimeNext ==
  \/ RuntimeCall
  \/ Mkdtemp
  \/ WriteFiles
  \/ CommandTimeout
  \/ CommandKill
  \/ CommandClose
  \/ CommandError
  \/ RemoveTempRoot

RuntimeSpec == Init /\ [][RuntimeNext]_vars

\* every step the runtime or the operating system takes by itself is taken
\* in the end: the timers fire, a child whose pipes are closed emits
\* 'close', the file system calls settle.  An 'error' event is not owed.
FairRuntimeSpec ==
  /\ RuntimeSpec
  /\ WF_vars(Mkdtemp) /\ WF_vars(WriteFiles) /\ WF_vars(CommandTimeout)
  /\ WF_vars(CommandKill) /\ WF_vars(CommandClose) /\ WF_vars(RemoveTempRoot)


----------------------------------------------------------------------------
(* start() against a consumer that reads, or cancels, at any moment *)

\* new ReadableStream({ async start(controller) { try { ... */
StartStream ==
  /\ delivery.pc = "idle"
  /\ delivery' = [delivery EXCEPT !.pc = "try"]
  /\ UNCHANGED <<requestVars, evaluation, runtime, ingestion>>

\* one of the send({type: 'event', ...}) calls of the try block
SendEvent ==
  /\ delivery.pc = "try"
  /\ delivery.sends < MaxEvents
  /\ LET pushed == send(delivery, [type |-> "event", n |-> delivery.sends + 1])
     IN delivery' = IF pushed.threw
                    THEN [pushed.d EXCEPT !.pc = "catch", !.caught = Some(INVALID_STATE)]
                    ELSE pushed.d
  /\ UNCHANGED <<requestVars, evaluation, runtime, ingestion>>

\* an awaited stage rejects inside the try block
StageThrows ==
  /\ delivery.pc = "try"
  /\ delivery' = [delivery EXCEPT !.pc = "catch", !.caught = Some(STAGE_FAILURE)]
  /\ UNCHANGED <<requestVars, evaluation, runtime, ingestion>>

\* send({ type: 'done' }), the last statement of the try block
SendDone ==
  /\ delivery.pc = "try"
  /\ LET pushed == send(delivery, [type |-> "done", n |-> 0])
     IN delivery' = IF pushed.threw
                    THEN [pushed.d EXCEPT !.pc = "catch", !.caught = Some(INVALID_STATE)]
                    ELSE [pushed.d EXCEPT !.pc = "finally"]
  /\ UNCHANGED <<requestVars, evaluation, runtime, ingestion>>

\* catch (error) { send({ type: 'error', error: error.message }) }
CatchSend ==
  /\ delivery.pc = "catch"
  /\ LET pushed == send(delivery, [type |-> "error", n |-> 0])
     IN delivery' = IF pushed.threw
                    THEN [pushed.d EXCEPT !.pc = "finally", !.pending = Some(INVALID_STATE)]
                    ELSE [pushed.d EXCEPT !.pc = "finally"]
  /\ UNCHANGED <<requestVars, evaluation, runtime, ingestion>>

\* finally { controller.close() }; an exception that leaves start() rejects
\* its promise, which errors a stream that is still readable
FinallyClose ==
  /\ delivery.pc = "finally"
  /\ LET shut == close(delivery)
     IN delivery' =
          IF shut.threw
          THEN [shut.d EXCEPT !.pc = "rejected", !.pending = Some(INVALID_STATE)]
          ELSE IF delivery.pending # None
          THEN [shut.d EXCEPT !.pc = "rejected",
                              !.state = IF @ = "readable" THEN "errored" ELSE @,
                              !.queue = <<>>]
          ELSE [shut.d EXCEPT !.pc = "returned"]
  /\ UNCHANGED <<requestVars, evaluation, runtime, ingestion>>

\* the consumer takes the next chunk
ConsumerRead ==
  /\ delivery.state = "readable"
  /\ delivery.queue # <<>>
  /\ delivery' = [delivery EXCEPT !.delivered = Append(@, Head(delivery.queue)),
                                  !.queue = Tail(@),
                                  !.state = IF delivery.closeRequested /\ Len(delivery.queue) = 1
                                            THEN "closed" ELSE @]
  /\ UNCHANGED <<requestVars, evaluation, runtime, ingestion>>

\* the consumer goes away: the stream is cancelled and its queue dropped;
\* the underlying source has no cancel callback
ConsumerCancel ==
  /\ delivery.pc # "idle"
  /\ delivery.state = "readable"
  /\ delivery' = [delivery EXCEPT !.state = "closed", !.queue = <<>>, !.cancelled = TRUE]
  /\ UNCHANGED <<requestVars, evaluation, runtime, ingestion>>

DeliveryNext ==
  \/ StartStream
  \/ SendEvent
  \/ StageThrows
  \/ SendDone
  \/ CatchSend
  \/ FinallyClose
  \/ ConsumerRead
  \/ ConsumerCancel

DeliverySpec == Init /\ [][DeliveryNext]_vars

----------------------------------------------------------------------------
(* ingestReferences, step by step *)

\* the url lists of the requests
IngestUrls ==
  { "https://site.example/a", "http://site.example/", "not a url",
    "https://LOCALHOST/", "https://10.0.0.5/", "https://printer.local/x",
    "https://inner.example/", "https://mixed.example/", "https://mapped.example/",
    "https://gone.example/", "https://hop.example/start" }

\* the Location headers a redirect carries; "" when it has none
Locations == {"/next", "https://site.example/a", "http://site.example/", ""}

IngestCall ==
  /\ ingestion.pc = "idle"
  /\ \E first \in IngestUrls, more \in {FALSE, TRUE} :
       ingestion' = [ingestion EXCEPT
                       !.pc = "next", !.i = 1,
                       !.urls = IF more THEN <<first, "https://site.example/a">>
                                ELSE <<first>>]
  /\ UNCHANGED <<requestVars, evaluation, runtime, delivery>>

\* for (const rawUrl of request.urls) { try { new URL(rawUrl) ...
NextUrl ==
  /\ ingestion.pc = "next"
  /\ ingestion.i <= Len(ingestion.urls)
  /\ LET url == parseUrl(ingestion.urls[ingestion.i])
     IN ingestion' = IF url.valid
                     THEN [ingestion EXCEPT !.pc = "fetchText", !.url = url, !.depth = 0]
                     ELSE raise(ingestion, "Invalid URL")
  /\ UNCHANGED <<requestVars, evaluation, runtime, delivery>>

\* fetchTextWithLimit up to its fetch: the depth test and assertSafeRemote
FetchTextWithLimit ==
  /\ ingestion.pc = "fetchText"
  /\ LET refusal == assertSafeRemote(ingestion.url)
     IN ingestion' =
          IF ingestion.depth > MAX_REDIRECTS THEN raise(ingestion, "Too many redirects")
          ELSE IF refusal # "" THEN raise(ingestion, refusal)
          ELSE [ingestion EXCEPT
                  !.pc = "response",
                  !.requests = Append(@, [i |-> ingestion.i, url |-> ingestion.url,
                                          depth |-> ingestion.depth])]
  /\ UNCHANGED <<requestVars, evaluation, runtime, delivery>>

\* the response is a redirect
Redirect ==
  /\ ingestion.pc = "response"
  /\ \E location \in Locations :
       LET nextUrl == resolveUrl(location, ingestion.url)
       IN ingestion' =
            IF location = "" THEN raise(ingestion, "Redirect without location")
            ELSE IF ~nextUrl.valid THEN raise(ingestion, "Invalid URL")
            ELSE [ingestion EXCEPT !.pc = "fetchText", !.url = nextUrl, !.depth = @ + 1]
  /\ UNCHANGED <<requestVars, evaluation, runtime, delivery>>

\* the fetch rejects, the status is not ok, or the body is over the limit
FetchFails ==
  /\ ingestion.pc = "response"
  /\ \E message \in {"fetch failed", "Failed to fetch URL (500)",
                     "Response exceeds 1000000 byte limit"} :
       ingestion' = raise(ingestion, message)
  /\ UNCHANGED <<requestVars, evaluation, runtime, delivery>>

\* the page arrives: the rest of ingestUrlReference and of the try block
PageIngested ==
  /\ ingestion.pc = "response"
  /\ ingestion' = [ingestion EXCEPT
                     !.pc = "next", !.i = @ + 1,
                     !.domSegments = Append(@, "URL: " \o ingestion.url.href)]
  /\ UNCHANGED <<requestVars, evaluation, runtime, delivery>>

Catch ==
  /\ ingestion.pc = "catch"
  /\ ingestion' = caught(ingestion)
  /\ UNCHANGED <<requestVars, evaluation, runtime, delivery>>

\* after the loop: the bundle is returned to the route (the request has
\* urls and no upload, and no URL yields a screenshot)
IngestReturn ==
  /\ ingestion.pc = "next"
  /\ ingestion.i > Len(ingestion.urls)
  /\ ingestion' = [ingestion EXCEPT
                     !.pc = "done",
                     !.bundle = Some([domSegments |-> ingestion.domSegments,
                                      warnings |-> uniqStrings(ingestion.warnings
                                                               \o <<NO_SCREENSHOTS>>)])]
  /\ UNCHANGED <<requestVars, evaluation, runtime, delivery>>

IngestionNext ==
  \/ IngestCall
  \/ NextUrl
  \/ FetchTextWithLimit
  \/ Redirect
  \/ FetchFails
  \/ PageIngested
  \/ Catch
  \/ IngestReturn

IngestionSpec == Init /\ [][IngestionNext]_vars

----------------------------------------------------------------------------
(* Properties of the orchestrator *)

Indices(type) == {i \in DOMAIN stream : stream[i].type = type}

IsFileLine(line) == line.type = "file"

emittedFiles ==
  LET lines == SelectSeq(stream, IsFileLine)
  IN [i \in DOMAIN lines |-> lines[i].file]

CountStage(name) == Cardinality({i \in DOMAIN stages : stages[i] = name})

PassingPasses == {i \in DOMAIN passes : passes[i].passed}

LastPassing == passes[CHOOSE i \in PassingPasses : \A j \in PassingPasses : j <= i]

snapshotOfPass(pass) ==
  [files |-> pass.files, runtimeHint |-> pass.runtimeHint,
   packageManifest |-> pass.packageManifest,
   responsiveReport |-> pass.responsiveReport, report |-> pass.report]

costCap == normalized.constraints.maxCostUsd

\* C1: the usage of every model call that has returned is in the running
\* total before any later stage starts, no stage starts once the total is
\* above the cap, and a request whose total is above the cap ends with an
\* error line and without file, metadata or done line.
C1_CostAddedBeforeNextStage ==
  /\ [][Len(stages') > Len(stages) /\ response = "stream"
          => /\ SumSeq(calls) = totalEstimatedCost
             /\ totalEstimatedCost <= costCap]_vars
  /\ [](closed /\ totalEstimatedCost > costCap
          => /\ Last(stream).type = "error"
             /\ Indices("file") = {} /\ Indices("metadata") = {} /\ Indices("done") = {})

\* C2: after the rollback no repair pass follows, the stream ends with done,
\* and the emitted files, manifest and runtime hint are exactly those of the
\* snapshot, which is the most recent runtime-passing pass; retryRecommended
\* is false.
C2_RollbackEmitsSnapshot ==
  reverted =>
    /\ pc \in {"finalize", "closed"}
    /\ validation.report.retryRecommended = FALSE
    /\ lastRuntimeStable = snapshotOfPass(LastPassing)
    /\ files = lastRuntimeStable.files
    /\ closed =>
         /\ Last(stream).type = "done"
         /\ Indices("error") = {}
         /\ emittedFiles = lastRuntimeStable.files
         /\ \A i \in Indices("metadata") :
              /\ stream[i].metadata.packageManifest = lastRuntimeStable.packageManifest
              /\ stream[i].metadata.runtimeHint = lastRuntimeStable.runtimeHint

\* C2 as amended: the same, except that the emitted runtime hint carries the
\* request's previewRuntimePreference as preferredRuntime when that
\* preference is not 'auto' (complexityScore and fallbackRuntime stay those
\* of the snapshot).
C2_RollbackEmitsSnapshotUpToPreference ==
  reverted =>
    /\ pc \in {"finalize", "closed"}
    /\ validation.report.retryRecommended = FALSE
    /\ lastRuntimeStable = snapshotOfPass(LastPassing)
    /\ files = lastRuntimeStable.files
    /\ closed =>
         /\ Last(stream).type = "done"
         /\ Indices("error") = {}
         /\ Cardinality(Indices("metadata")) = 1
         /\ emittedFiles = lastRuntimeStable.files
         /\ \A i \in Indices("metadata") :
              LET emitted == stream[i].metadata.runtimeHint
                  stable == lastRuntimeStable.runtimeHint
              IN /\ stream[i].metadata.packageManifest = lastRuntimeStable.packageManifest
                 /\ emitted.complexityScore = stable.complexityScore
                 /\ emitted.fallbackRuntime = stable.fallbackRuntime
                 /\ IF normalized.previewRuntimePreference = "auto"
                    THEN emitted = stable
                    ELSE emitted.preferredRuntime = normalized.previewRuntimePreference

\* a rollback that replaced the files of the failed repair, in a request
\* with a runtime preference
C2_Witness ==
  /\ closed /\ reverted
  /\ Last(passes).files # files
  /\ normalized.previewRuntimePreference # "auto"
  /\ Last(stream).type = "done"

\* C3: a StableSnapshot exists only if a pass of this request completed a
\* runtime build validation with passed = true, and its files are the files
\* of such a pass.
C3_SnapshotOnlyFromPassedRuntime ==
  lastRuntimeStable # None =>
    \E i \in DOMAIN passes :
      /\ passes[i].passed
      /\ passes[i].files = lastRuntimeStable.files

\* a snapshot exists while a later pass has failed its runtime build
C3_Witness ==
  /\ lastRuntimeStable # None
  /\ Len(passes) >= 2
  /\ ~Last(passes).passed
  /\ Last(passes).files # lastRuntimeStable.files

\* C4: after every pass whose runtime build validation passed, whatever its
\* phase, the StableSnapshot is that pass's files, manifest, hint and report.
C4_SnapshotIsLatestPassingPass ==
  PassingPasses # {} => lastRuntimeStable = snapshotOfPass(LastPassing)

\* C5: the retry counter never exceeds maxRetries clamped to [0,2], it counts
\* the repair passes, and the Builder is invoked at most 3 times.
C5_RetriesBounded ==
  response = "stream" =>
    /\ normalized.constraints.maxRetries \in 0..(MaxRetriesCap * RetryScale)
    /\ retries * RetryScale <= normalized.constraints.maxRetries
    /\ CountStage("Build") <= 3
    /\ CountStage("Build") <= retries + 1
    /\ retries <= CountStage("Build")

\* C6: when every runtime build validation of the request failed (no
\* snapshot), the loop is left only with the retry counter equal to
\* maxRetries, and the request finalizes with the last pass's files,
\* accepted = false, and done.
C6_BestEffortAfterExhaustion ==
  /\ pc \in {"finalize", "closed"}
  /\ CountStage("Finalize") = (IF pc = "closed" THEN 1 ELSE 0)
  /\ passes # <<>>
  /\ PassingPasses = {}
  =>
    /\ lastRuntimeStable = None
    /\ retries * RetryScale = normalized.constraints.maxRetries
    /\ validation.report.accepted = FALSE
    /\ files = Last(passes).files
    /\ closed => /\ Last(stream).type = "done"
                 /\ Indices("error") = {}
                 /\ emittedFiles = Last(passes).files

TerminalLines == Indices("done") \cup Indices("error")

C9_FinalizationOrder ==
  closed /\ Last(stream).type = "done" =>
    /\ emittedFiles = files
    /\ Cardinality(Indices("metadata")) = 1
    /\ \A i \in Indices("file") : \A m \in Indices("metadata") : i < m
    /\ \A m \in Indices("metadata") : m < Len(stream) - 1
    /\ stream[Len(stream) - 1].type = "event"
    /\ stream[Len(stream) - 1].event.type = "complete"
    /\ Cardinality({i \in Indices("event") : stream[i].event.type = "complete"}) = 1

\* a done stream of a seven-file project with a policy note between the
\* metadata line and the complete event
C9_Witness ==
  /\ closed /\ Last(stream).type = "done"
  /\ Len(files) >= 7
  /\ \E i \in Indices("event") : stream[i].event.progress = 96

\* C10: the running total never decreases and every model call adds a
\* non-negative amount.
C10_CostNeverDecreases ==
  /\ [][totalEstimatedCost' >= totalEstimatedCost]_vars
  /\ [](\A i \in DOMAIN calls : calls[i] >= 0)

\* a rollback after five model calls, all of them still in the total
C10_Witness ==
  /\ reverted
  /\ Len(calls) >= 5
  /\ totalEstimatedCost = SumSeq(calls)
  /\ totalEstimatedCost > 0

\* some input source in a request: a prompt with a character that is not
\* white space, a non-empty image list or a non-empty URL list
carriesInput(request) ==
  \/ request.prompt.some /\ \E i \in DOMAIN request.prompt.v : request.prompt.v[i] # " "
  \/ request.images.some /\ request.images.v # <<>>
  \/ request.urls.some /\ request.urls.v # <<>>

\* C11: a stream is opened only for a request with an API key and some input
\* source; every other request gets the 400 response, and a rejected request
\* never opens a stream, ingests a reference or makes a model call.
C11_RejectedBeforeStream ==
  /\ [][response = "none" /\ response' = "stream"
          => normalized'.apiKey /\ carriesInput(normalized')]_vars
  /\ [](pc # "request" => response \in {"400", "stream"})
  /\ [](response = "400"
          => /\ pc = "rejected" /\ rejection # ""
             /\ stream = <<>> /\ ~closed
             /\ stages = <<>> /\ references = None
             /\ calls = <<>> /\ lastCall = None /\ totalEstimatedCost = 0)

\* a request with a key and no input source was rejected
C11_Witness ==
  /\ response = "400"
  /\ rejection = "Provide at least one input source: prompt, image, or URL."

\* the visual gate as the quality modes define it
visualGate(mode, visualScore) ==
  \/ mode = "strict_visual" /\ visualScore >= 78
  \/ mode = "balanced" /\ visualScore >= 65
  \/ mode = "function_first"

\* C12 as stated: accepted exactly when the review's functionalPass is true,
\* the deterministic issue list is empty, the visual score reaches the
\* mode's threshold and there is no responsive warning; retryRecommended is
\* the negation of accepted.
C12_AcceptedIffGatesPass ==
  evaluation # None /\ evaluation.fn = "validateOutput" =>
    /\ evaluation.report.accepted
         = (/\ evaluation.reviewer.functionalPass
            /\ evaluation.deterministicIssues = <<>>
            /\ visualGate(evaluation.qualityMode, evaluation.report.visualScore)
            /\ evaluation.responsiveWarnings = <<>>)
    /\ evaluation.report.retryRecommended = ~evaluation.report.accepted

\* C12 as amended: the same, where the review passes only if it also lists
\* no critical issue.
C12_AcceptedIffGatesPassAndNoCriticalIssue ==
  evaluation # None /\ evaluation.fn = "validateOutput" =>
    /\ evaluation.report.accepted
         = (/\ evaluation.reviewer.functionalPass
            /\ evaluation.reviewer.criticalIssues = <<>>
            /\ evaluation.deterministicIssues = <<>>
            /\ visualGate(evaluation.qualityMode, evaluation.report.visualScore)
            /\ evaluation.responsiveWarnings = <<>>)
    /\ evaluation.report.retryRecommended = ~evaluation.report.accepted

\* a review that passes but lists a critical issue, with every other gate
\* open, was not accepted
C12_Witness ==
  /\ evaluation # None /\ evaluation.fn = "validateOutput"
  /\ evaluation.reviewer.functionalPass
  /\ evaluation.reviewer.criticalIssues # <<>>
  /\ evaluation.deterministicIssues = <<>> /\ evaluation.responsiveWarnings = <<>>
  /\ evaluation.qualityMode = "strict_visual" /\ evaluation.report.visualScore >= 78
  /\ ~evaluation.report.accepted

\* C13: in function-first mode the accepted value is the one the same
\* validation has with any other visual score in 0..100.
C13_FunctionFirstIgnoresVisualScore ==
  evaluation # None /\ evaluation.fn = "validateOutput"
  /\ evaluation.qualityMode = "function_first"
  =>
    \A visualScore \in 0..100 :
      qualityReport(evaluation.reviewer, evaluation.deterministicIssues,
                    evaluation.responsiveWarnings, visualScore,
                    evaluation.qualityMode).accepted
      = evaluation.report.accepted

\* a function-first validation accepted with a visual score of 0
C13_Witness ==
  /\ evaluation # None /\ evaluation.fn = "validateOutput"
  /\ evaluation.qualityMode = "function_first"
  /\ evaluation.report.visualScore = 0
  /\ evaluation.report.accepted

\* a relative path that does not leave the project root
staysInsideRoot(path) ==
  /\ ~startsWith(path, "/")
  /\ \A k \in DOMAIN pathSegments(path) : pathSegments(path)[k] # ".."

\* C14: every path carried by an emitted file line has no '..' segment and
\* no leading '/', whatever path the model wrote in the ---FILE: header.
C14_EmittedPathsStayInsideRoot ==
  (evaluation # None /\ evaluation.fn = "emitFiles")
    => \A i \in DOMAIN evaluation.lines :
         evaluation.lines[i].type = "file"
           => staysInsideRoot(evaluation.lines[i].file.path)

\* C15: the Enforcer is idempotent on its own output: enforcePackagePolicy
\* on the files returned by enforcePackagePolicy(F, s) returns the same
\* files, path by path and content by content.
C15_EnforcerIdempotent ==
  (evaluation # None /\ evaluation.fn = "enforcePackagePolicy")
    => evaluation.twice.files = evaluation.once.files

\* C16: serializing each file of a file set as
\* '---FILE: <path>---\n<content>\n---END FILE---' and parsing the result
\* with parseFiles yields the same file set, paths and contents.
C16_GrammarRoundTrip ==
  (evaluation # None /\ evaluation.fn = "roundTrip")
    => evaluation.parsed = evaluation.files

\* the required file set of an output stack
requiredFileSet(outputStack) ==
  IF outputStack = "react-tailwind"
  THEN {"package.json", "index.html", "src/main.tsx", "src/App.tsx", "src/styles.css",
        "tailwind.config.js", "postcss.config.js"}
  ELSE {"index.html", "styles.css", "app.js"}

\* C17: for every answer of the model, the paths of the file plan of the
\* DesignSpec the Extractor returns are exactly the required file set of
\* the requested output stack, also when the answer proposes another plan.
C17_FilePlanIsRequiredSet ==
  (evaluation # None /\ evaluation.fn = "extractDesignSpec")
    => Range(evaluation.spec.filePlan) = requiredFileSet(evaluation.outputStack)

\* the call has returned or thrown after it created its directory
createdAndLeft == runtime.pc = "done" /\ runtime.tempRoot # "none"

C19_TimeoutIsFailure ==
  (runtime.pc = "done" /\ runtime.outcome.v.kind = "return") =>
    \A i \in DOMAIN runtime.commands :
      runtime.commands[i].timedOut =>
        /\ ~runtime.outcome.v.passed
        /\ runtime.outcome.v.phase = runtime.commands[i].stage

\* C20: an exception inside the validator ends the call with a returned
\* failed result; it is never thrown to the orchestrator.
C20_CrashIsReturnedNotThrown ==
  runtime.pc = "done" => runtime.outcome.v.kind = "return"

\* process.env of the hosts the validator runs on
HostEnvs ==
  [FLASHBUILD_RUNTIME_VALIDATION : {"", "off", "force"}, VERCEL : {"", "1"}]

\* non-framework output, validation switched off, or a constrained host
\* without the force setting
runtimeDisabled(outputStack, e) ==
  \/ outputStack # "react-tailwind"
  \/ e.FLASHBUILD_RUNTIME_VALIDATION = "off"
  \/ e.VERCEL = "1" /\ e.FLASHBUILD_RUNTIME_VALIDATION # "force"

SKIPPED_NOTE == "Runtime build validation skipped by environment."

\* C21: when runtime build validation is disabled the validator returns
\* phase 'skipped' with passed=true and the informational note, and the
\* orchestrator's step that receives it leaves the report as it was, sends
\* nothing, keeps the note for the closing event and goes on to the loop
\* condition, which then decides on the quality report alone.
C21_SkippedIsNotAFailure ==
  /\ [](\A outputStack \in OutputStacks, e \in HostEnvs, o \in RuntimeOutcomes :
          runtimeDisabled(outputStack, e)
            => validateRuntimeBuild(files, outputStack, e, o)
                 = [passed |-> TRUE, phase |-> "skipped", issues |-> <<SKIPPED_NOTE>>])
  /\ [][(stages' = Append(stages, "RuntimeValidate")
           /\ runtimeDisabled(normalized.outputStack, env))
          => /\ validation' = validation
             /\ stream' = stream
             /\ ~closed'
             /\ pc' = "loop"
             /\ policyNotes' = Append(policyNotes, SKIPPED_NOTE)
             /\ Last(passes').passed /\ Last(passes').phase = "skipped"]_vars

\* a skipped validation of an accepted report: the request goes to its
\* finalization without a repair
C21_Witness ==
  /\ pc = "finalize"
  /\ retries = 0
  /\ Len(passes) = 1 /\ passes[1].phase = "skipped"
  /\ validation.report.accepted
  /\ SKIPPED_NOTE \in Range(policyNotes)

\* C22: a consumer that cancels the stream does not make the pipeline fail:
\* no push of a line raises an error, neither one that the catch block
\* receives nor one that leaves start()
C22_DisconnectIsNotAFailure ==
  /\ delivery.caught # Some(INVALID_STATE)
  /\ delivery.pending = None

\* C23: a reference URL whose ingestion fails (http, malformed, private or
\* local host, unresolvable host, failed fetch, bad redirect) never makes
\* ingestReferences reject; the bundle it returns carries a warning that
\* names the URL, and every other URL of the request has been requested
C23_FailedUrlAddsWarning ==
  /\ ~ingestion.rejected
  /\ ingestion.pc = "done" =>
       /\ ingestion.bundle # None
       /\ \A i \in ingestion.failed :
            \E w \in Range(ingestion.bundle.v.warnings) :
              startsWith(w, "Failed to ingest " \o ingestion.urls[i] \o ": ")
       /\ \A i \in DOMAIN ingestion.urls :
            i \in ingestion.failed \/ \E k \in DOMAIN ingestion.requests : ingestion.requests[k].i = i
       /\ Len(ingestion.bundle.v.domSegments)
            = Len(ingestion.urls) - Cardinality(ingestion.failed)

C23_Witness ==
  /\ ingestion.pc = "done"
  /\ ingestion.urls = <<"http://site.example/", "https://site.example/a">>
  /\ ingestion.failed = {1}
  /\ ingestion.bundle.v.domSegments = <<"URL: https://site.example/a">>

\* loopback, private and link-local addresses, an IPv4 address embedded in
\* an IPv6 one included
isInternalIPv4(parts) ==
  \/ parts[1] = 127
  \/ parts[1] = 10
  \/ parts[1] = 172 /\ parts[2] \in 16..31
  \/ parts[1] = 192 /\ parts[2] = 168
  \/ parts[1] = 169 /\ parts[2] = 254

isInternalAddress(address) ==
  IF address.family = 4 THEN isInternalIPv4(address.parts)
  ELSE \/ address.text = "::1"
       \/ \E prefix \in {"fc", "fd", "fe8", "fe9", "fea", "feb"} : startsWith(address.text, prefix)
       \/ address.embedded # <<>> /\ isInternalIPv4(address.embedded)

\* C24: every page request that is sent goes to an https URL none of
\* whose resolved addresses is loopback, private or link-local, and is the
\* original request or one of at most 2 redirects
C24_RequestsOnlyAfterChecks ==
  \A k \in DOMAIN ingestion.requests :
    LET request == ingestion.requests[k]
    IN /\ request.url.protocol = "https:"
       /\ Resolver[request.url.hostname] # {}
       /\ \A address \in Resolver[request.url.hostname] : ~isInternalAddress(address)
       /\ request.depth <= MAX_REDIRECTS

\* the files the scaffold of a stack is made of
scaffoldFileSet(outputStack) ==
  IF outputStack = "react-tailwind"
  THEN {"package.json", "index.html", "src/main.tsx", "src/App.tsx", "src/styles.css",
        "tailwind.config.js", "postcss.config.js"}
  ELSE {"index.html", "styles.css", "app.js", "package.json"}

\* C25: whatever files go into enforcePackagePolicy, none at all included,
\* the files it returns contain every file of the scaffold of the stack,
\* package.json included for both stacks
C25_ScaffoldComplete ==
  (evaluation # None /\ evaluation.fn = "enforcePackagePolicy")
    => \A path \in scaffoldFileSet(evaluation.outputStack) :
         hasPath(evaluation.once.files, path)

C25_Witness ==
  /\ evaluation # None
  /\ evaluation.fn = "enforcePackagePolicy"
  /\ evaluation.files = <<>>
  /\ evaluation.outputStack = "vanilla"
  /\ {evaluation.once.files[i].path : i \in DOMAIN evaluation.once.files}
       = {"index.html", "styles.css", "app.js", "package.json"}

\* C26: the patch-instruction text of a rejected report has at most 20
\* lines and no line twice, whatever the reviewer's patch text and the
\* issue lists are
C26_PatchTextCappedAndDeduplicated ==
  (evaluation # None /\ evaluation.fn = "validateOutput" /\ ~evaluation.report.accepted)
    => LET text == evaluation.report.patchInstructions
       IN /\ Len(text) <= 20
          /\ \A i, j \in DOMAIN text : text[i] = text[j] => i = j

\* C27: every local script src or stylesheet href of the HTML entry that
\* names no file of the project is reported as 'Missing referenced file: X',
\* and a report with such an issue is not accepted
C27_MissingReferenceReported ==
  (evaluation # None /\ evaluation.fn = "checkMissingHtmlReferences")
    => /\ (evaluation.missing /\ ~isRemoteReference(evaluation.ref))
            => "Missing referenced file: " \o evaluation.ref \in Range(evaluation.issues)
       /\ evaluation.issues # <<>> => ~evaluation.report.accepted

\* C28: the RuntimeHint of the Enforcer: vanilla output gets the srcdoc
\* runtime; react-tailwind output gets sandpack with remote as fallback
\* below a complexityScore of 85 and remote with sandpack as fallback from
\* 85 on; the complexityScore lies within 0..100
C28_RuntimeHintDerivation ==
  (evaluation # None /\ evaluation.fn = "enforcePackagePolicy")
    => LET hint == evaluation.once.runtimeHint
       IN /\ hint.complexityScore \in 0..100
          /\ evaluation.outputStack = "vanilla" => hint.preferredRuntime = "srcdoc"
          /\ (evaluation.outputStack = "react-tailwind" /\ hint.complexityScore < 85)
               => hint.preferredRuntime = "sandpack" /\ hint.fallbackRuntime = "remote"
          /\ (evaluation.outputStack = "react-tailwind" /\ hint.complexityScore >= 85)
               => hint.preferredRuntime = "remote" /\ hint.fallbackRuntime = "sandpack"

C28_Witness ==
  /\ evaluation # None
  /\ evaluation.fn = "enforcePackagePolicy"
  /\ evaluation.outputStack = "react-tailwind"
  /\ evaluation.once.runtimeHint.complexityScore = 100
  /\ evaluation.once.runtimeHint.preferredRuntime = "remote"

\* the call is over, its install exited with 0 and its package.json is an
\* object without a build script
installedWithoutBuildScript ==
  /\ runtime.pc = "done"
  /\ \E k \in DOMAIN runtime.commands :
       runtime.commands[k].stage = "install" /\ runtime.commands[k].code = 0
  /\ parseJson(fileAt(runtime.files, "package.json").content).some
  /\ ~hasBuild(runtime)

buildStarted == \E k \in DOMAIN runtime.commands : runtime.commands[k].stage = "build"

testFailed ==
  \E k \in DOMAIN runtime.commands :
    runtime.commands[k].stage = "test" /\ runtime.commands[k].code # 0

\* C29 as stated: with validation enabled, a successful install and no
\* build script the call returns passed=true with phase 'install' and the
\* build command is never started
C29_NoBuildScriptPassesAtInstall ==
  installedWithoutBuildScript
    => /\ runtime.outcome = Some(Returned(TRUE, "install", <<>>))
       /\ ~buildStarted

\* C29 as the code has it: the build command is never started, and unless
\* a requested test run failed the only result the call returns is
\* passed=true with phase 'install'
C29_NoBuildScriptNeverBuilds ==
  installedWithoutBuildScript
    => /\ ~buildStarted
       /\ runtime.outcome.v.kind = "return"
            => IF testFailed
               THEN ~runtime.outcome.v.passed /\ runtime.outcome.v.phase = "test"
               ELSE runtime.outcome = Some(Returned(TRUE, "install", <<>>))

C29_Witness ==
  /\ installedWithoutBuildScript
  /\ runtime.tests
  /\ \E k \in DOMAIN runtime.commands :
       runtime.commands[k].stage = "test" /\ runtime.commands[k].code = 0
  /\ runtime.outcome = Some(Returned(TRUE, "install", <<>>))

\* the step is the Extractor's call, and the call returned an answer
extractorAnswered ==
  /\ stages' = Append(stages, "Spec")
  /\ lastCall'.outcome.kind = "ok"

isErrorLine(line) == line.type = "error"

\* C30 as stated: an answer of the Extractor that none of the three parse
\* attempts can parse gives the fallback DesignSpec and the usage of the
\* call, the request goes on to Build and no error line is emitted
C30_UnparsableSpecGoesOnToBuild ==
  [][extractorAnswered
       => /\ spec' = buildFallbackSpec(normalized.outputStack)
          /\ Len(calls') = Len(calls) + 1
          /\ pc' = "build"
          /\ SelectSeq(stream', isErrorLine) = <<>>]_vars

\* extractDesignSpec on the answers that fail the strict parse, the parse
\* without fences and the parse of the brace match
unparsableGivesFallback ==
  \A raw \in ExtractorAnswers, outputStack \in OutputStacks :
    (/\ ~jsonParse(raw).some
     /\ ~jsonParse(stripFences(raw)).some
     /\ braceMatch(stripFences(raw)).some => ~jsonParse(braceMatch(stripFences(raw)).v).some)
      => extractDesignSpec(safeJsonParse(raw), outputStack) = buildFallbackSpec(outputStack)

\* C30 as the code has it: the fallback DesignSpec and the usage of the
\* call are returned for every such answer; the request goes on to Build
\* without an error line unless the cost of the call takes the total over
\* the cost cap, and then the error line is the one of the cost cap
C30_UnparsableSpecIsRecovered ==
  /\ []unparsableGivesFallback
  /\ [][extractorAnswered
          => /\ spec' = buildFallbackSpec(normalized.outputStack)
             /\ calls' = Append(calls, usageOf(normalized.provider, lastCall'.outcome).estimatedCostUsd)
             /\ IF costExceeded(totalEstimatedCost', normalized.constraints.maxCostUsd)
                THEN /\ pc' = "closed"
                     /\ SelectSeq(stream', isErrorLine)
                          = <<ErrorLine(costMessage(totalEstimatedCost',
                                                    normalized.constraints.maxCostUsd))>>
                ELSE /\ pc' = "build"
                     /\ SelectSeq(stream', isErrorLine) = <<>>]_vars

C30_Witness ==
  /\ pc = "build"
  /\ Last(stages) = "Spec"
  /\ spec = buildFallbackSpec(normalized.outputStack)
  /\ Len(calls) = 1
  /\ SelectSeq(stream, isErrorLine) = <<>>
  /\ Cardinality(UnparsableAnswers) >= 3

\* C31: the Builder request of every repair pass holds the current files and
\* the repair instructions of the rejecting report, also when that report
\* has no issue and no patch text
builderRequestSection(request, label) ==
  {i \in DOMAIN request : request[i].label = label}

C31_RepairRequestCarriesFilesAndInstructions ==
  (evaluation # None /\ evaluation.fn = "repairRequest")
    => LET request == evaluation.request
       IN /\ \E i \in builderRequestSection(request, "Current files to patch:") :
               request[i].body = serializeFiles(evaluation.files)
          /\ \E i \in builderRequestSection(request, "Repair instructions:") :
               request[i].body = repairInstructionsOf(evaluation.report)
                 /\ request[i].body # <<>>

\* C32: after a Builder + Policy pass, and among the file lines of the
\* finalization, no two files have the same path, also when the answer of
\* the model holds two blocks with the same path
distinctPaths(fs) == \A i, j \in DOMAIN fs : fs[i].path = fs[j].path => i = j

C32_NoTwoFilesWithTheSamePath ==
  (evaluation # None /\ evaluation.fn = "repeatedBlocks")
    => /\ distinctPaths(evaluation.files)
       /\ distinctPaths([k \in DOMAIN SelectSeq(evaluation.lines, IsFileLine) |->
                           SelectSeq(evaluation.lines, IsFileLine)[k].file])

\* C33: validateRuntimeBuild writes no file outside its temporary directory:
\* every file of the input ('..', '../x', 'a/../../x', absolute paths and
\* backslash forms included) is written under the temporary root or not
\* written at all
C33_NoWriteOutsideTempRoot ==
  /\ \A path \in runtime.written :
       /\ staysInsideRoot(path)
       /\ ~namesDirectory(path)
       /\ \E i \in DOMAIN runtime.files : normalizePath(runtime.files[i].path) = Some(path)
  /\ runtime.written # {} => runtime.tempRoot # "none"

C33_Witness ==
  /\ runtime.pc = "install"
  /\ Cardinality(runtime.written) = 3
  /\ \E i, j, k \in DOMAIN runtime.files :
       /\ runtime.files[i].path = "a/../../x.js"
       /\ runtime.files[j].path = "/etc/passwd"
       /\ runtime.files[k].path = "..\\x.js"

\* C34: a command that still runs when its timeout elapses is sent SIGTERM
\* and then SIGKILL, runCommand resolves with timedOut = true, and
\* validateRuntimeBuild terminates also when the tool hangs and ignores
\* SIGTERM
C34_TimedOutCommandTerminates ==
  (runtime.command.running /\ runtime.command.timedOut) ~> (runtime.pc = "done")

\* C35: the issues of a failed command hold up to 12 lines of its output,
\* the first 12 lines that match an error keyword or, when none matches,
\* the last 12 non-empty lines, and every one of these lines is among the
\* reported issues
nonEmptyLines(output) ==
  SelectSeq([i \in DOMAIN output |-> trimLine(output[i])], LAMBDA line : line # "")

keywordLines(output) ==
  SelectSeq(nonEmptyLines(output),
            LAMBDA line : \E word \in FAILURE_KEYWORDS : includes(toLowerCase(line), word))

C35_TwelveOutputLinesReported ==
  (evaluation # None /\ evaluation.fn = "summarizeFailure")
    => LET lines == nonEmptyLines(evaluation.output)
           matching == keywordLines(evaluation.output)
           taken == IF matching # <<>> THEN slice(matching, 12)
                    ELSE SubSeq(lines, Max(1, Len(lines) - 11), Len(lines))
       IN /\ Len(taken) <= 12
          /\ \A i \in DOMAIN taken : taken[i] \in Range(evaluation.issues)

\* C36: in a stream that ends with done and whose final report is accepted,
\* the emitted files are those of a pass that the quality validation
\* accepted and whose runtime build validation passed; a failed runtime
\* build forces accepted = false and retryRecommended = true on the report
\* of its pass, and a result restored by the rollback is never accepted
endsWithDone == closed /\ stream # <<>> /\ Last(stream) = DoneLine

C36_AcceptedMeansValidatedPass ==
  /\ (endsWithDone /\ validation.report.accepted)
       => /\ passes # <<>>
          /\ Last(passes).passed
          /\ Last(passes).report.accepted
          /\ Last(passes).report = validation.report
          /\ emittedFiles = Last(passes).files
          /\ ~reverted
  /\ \A i \in DOMAIN passes :
       ~passes[i].passed
         => ~passes[i].report.accepted /\ passes[i].report.retryRecommended
  /\ reverted => ~validation.report.accepted /\ ~Last(passes).passed

C36_Witness ==
  /\ endsWithDone
  /\ validation.report.accepted
  /\ Len(passes) >= 2
  /\ ~passes[1].passed
  /\ Last(passes).phase = "build"

\* C37: a stream has one of two shapes: progress events followed by one
\* error line, or progress events followed by the file lines, one metadata
\* line, further events and done; no file or metadata line is in a stream
\* that ends with error, also when the fatal condition comes up while a
\* stable snapshot exists
errorShape ==
  /\ Indices("error") = {Len(stream)}
  /\ \A i \in 1..(Len(stream) - 1) : stream[i].type = "event"

doneShape ==
  /\ Indices("done") = {Len(stream)}
  /\ Indices("error") = {}
  /\ Indices("file") # {}
  /\ \E m \in DOMAIN stream :
       /\ Indices("metadata") = {m}
       /\ \A i \in Indices("file") : i < m
       /\ \A i \in (m + 1)..(Len(stream) - 1) : stream[i].type = "event"
       /\ \A i \in 1..(m - 1) : stream[i].type \in {"event", "file"}
       /\ \E first \in Indices("file") :
            /\ \A i \in 1..(first - 1) : stream[i].type = "event"
            /\ \A i \in first..(m - 1) :
                 stream[i].type = "event" => stream[i].event.type = "coding"

C37_StreamShapes ==
  /\ [](closed => (errorShape /\ ~doneShape) \/ (doneShape /\ ~errorShape))
  /\ [](~closed => \A i \in DOMAIN stream : stream[i].type = "event")
  /\ [][\/ stream' = stream
        \/ ~closed /\ Len(stream') > Len(stream)
                   /\ SubSeq(stream', 1, Len(stream)) = stream]_vars

C37_Witness ==
  /\ closed
  /\ errorShape
  /\ lastRuntimeStable # None
  /\ retries >= 1
  /\ Last(stream).error = costMessage(totalEstimatedCost, normalized.constraints.maxCostUsd)

\* C38: a request makes at most 3 + 2 * maxRetries model calls (one
\* Extractor call, then one Builder and one reviewer call per pass), at most
\* 7, and at most 1 + maxRetries runtime build validations; the calls follow
\* one another, a step starts at most one
modelCalls == CountStage("Spec") + CountStage("Build") + CountStage("Validate")

C38_CallBudget ==
  /\ [](response = "stream"
         => /\ modelCalls * RetryScale
                 <= 3 * RetryScale + 2 * normalized.constraints.maxRetries
            /\ modelCalls <= 7
            /\ CountStage("RuntimeValidate") * RetryScale
                 <= RetryScale + normalized.constraints.maxRetries
            /\ CountStage("Spec") <= 1
            /\ CountStage("Validate") <= CountStage("Build")
            /\ CountStage("Build") <= CountStage("Validate") + 1)
  /\ [][Len(stages') <= Len(stages) + 1 /\ Len(calls') <= Len(calls) + 1]_vars

\* C39: for framework output, the project the Enforcer synthesizes by
\* itself (index.html with the module script src "/src/main.tsx" and the
\* other required files) has an empty deterministic issue list in the
\* Validator: no 'Missing referenced file' issue and no missing-entry issue
C39_OwnScaffoldHasNoDeterministicIssue ==
  (/\ evaluation # None
   /\ evaluation.fn = "enforcePackagePolicy"
   /\ evaluation.outputStack = "react-tailwind"
   /\ ~hasPath(evaluation.files, "index.html"))
    => /\ hasModuleEntryScript(extractIndexHtml(evaluation.once.files))
       /\ checkRuntimeStructure(evaluation.once.files, "react-tailwind") = <<>>
       /\ checkMissingHtmlReferences(evaluation.once.files,
                                     extractIndexHtml(evaluation.once.files)) = <<>>
       /\ deterministicIssues(evaluation.once.files, "react-tailwind") = <<>>

\* the reference bundle of a prompt-only request, in strict-visual mode
promptOnlyStrict ==
  /\ response = "stream"
  /\ references # None
  /\ references.styleTokens = <<>>
  /\ references.interactionHints = <<>>
  /\ normalized.qualityMode = "strict_visual"

\* the visual score of every file set against the empty bundle
scoreWithoutReferences ==
  {weightedVisualScore(scoreVisualSimilarity(<<>>, parseGeneratedStyleTokens(fs)),
                       scoreInteractionCoverage(<<>>, fs)) : fs \in PolicyFileSets}

\* C40 as stated: with no style token and no interaction hint the visual
\* score is 72 whatever the files are, in strict-visual mode no Builder
\* output is accepted, and every such request has run all of its maxRetries
\* repair passes when it finalizes
C40_PromptOnlyStrictRunsAllRetries ==
  (promptOnlyStrict /\ pc \in {"finalize", "closed"} /\ CountStage("RuntimeValidate") > 0
     /\ (closed => Last(stream) = DoneLine))
    => /\ validation.report.visualScore = 72
       /\ ~validation.report.accepted
       /\ retries * RetryScale >= normalized.constraints.maxRetries

\* C40 as the code has it: the score is 72 and nothing is accepted; the
\* request finalizes after at least maxRetries repair passes (and no more
\* than the next whole number), unless a repair pass failed its runtime
\* build while a stable snapshot existed: the rollback ends the loop at once
C40_PromptOnlyStrictBestEffort ==
  /\ scoreWithoutReferences = {72}
  /\ (promptOnlyStrict /\ validation # None)
       => /\ validation.report.visualScore = 72
          /\ ~validation.report.accepted
          /\ \A i \in DOMAIN passes : ~passes[i].report.accepted
  /\ (promptOnlyStrict /\ pc \in {"finalize", "closed"} /\ CountStage("RuntimeValidate") > 0
        /\ (closed => Last(stream) = DoneLine))
       => IF reverted
          THEN /\ retries >= 1
               /\ (retries - 1) * RetryScale < normalized.constraints.maxRetries
               /\ ~Last(passes).passed
          ELSE /\ retries * RetryScale >= normalized.constraints.maxRetries
               /\ retries = 0 \/ (retries - 1) * RetryScale < normalized.constraints.maxRetries

C40_Witness ==
  /\ promptOnlyStrict
  /\ closed /\ Last(stream) = DoneLine
  /\ ~reverted
  /\ retries = 2
  /\ normalized.constraints.maxRetries = 2 * RetryScale
  /\ validation.report.visualScore = 72
  /\ ~validation.report.accepted

====
